---------------------------- MODULE Spec2Model ----------------------------
(***************************************************************************)
(* Agent execution core of the Bubble AI chat companion:                   *)
(*   - generateContentStreamWithRetry, the native provider dispatcher      *)
(*     (src/unnamed/part_000, lines 54-96);                                *)
(*   - runAutonomousAgent, the tag-driven agent loop                       *)
(*     (src/unnamed/part_000, lines 164-638);                              *)
(*   - useChat's handleSendMessage / handleStopGeneration / safety         *)
(*     timeout, the session concurrency guard                              *)
(*     (src/components/settings/MemoryDashboard.tsx, lines 357-926).       *)
(*                                                                         *)
(* The specifications share the variables:                                 *)
(*   SpecRetry   one invocation of the dispatcher against a provider that  *)
(*               answers each call with success or an error;               *)
(*   SpecAgent   one run of runAutonomousAgent's loop, dispatcher          *)
(*               included, with the cancellation signal set by the         *)
(*               environment;                                              *)
(*   SpecSetup   a request from the memory fetch on, over the thinking     *)
(*               modes, models and profile settings;                       *)
(*   SpecGuard, SpecSession   the guard driving several requests, the      *)
(*               agent abstracted to its interface;                        *)
(*   SpecOrStream, SpecNativeStream   the two provider streams, read       *)
(*               chunk by chunk;                                           *)
(*   SpecDisplay one request of the guard together with the chat's         *)
(*               realtime channel and history fetch.                       *)
(* SpecSetup includes instant mode, where generateFreeCompletion           *)
(* (src/services/freeLlmService.ts, lines 161-196) tries the free          *)
(* providers.                                                              *)
(***************************************************************************)
EXTENDS Integers, Sequences, FiniteSets, TLC

VARIABLES
    \* ---- dispatcher (generateContentStreamWithRetry) ----
    rpc,            \* position: "idle" | "call" | "sleep" | "returned" | "thrown"
    params_model,   \* params.model
    attempt,        \* the for loop's counter
    calls,          \* provider calls issued: <<[model, attempt, aborted]>>
    responses,      \* what the provider answered, in order: OkResponse or an error
    notices,        \* onRetry messages, in order
    delays,         \* backoff sleeps started: <<[attempt, ms]>>
    thrown,         \* the error the dispatcher threw, or NoError
    \* ---- cancellation signal of the request ----
    aborted,        \* signal.aborted
    faults,         \* provider errors answered so far in this request
    \* ---- runAutonomousAgent ----
    pc,                     \* position of the agent (its pending await)
    model,                  \* the resolved model
    loopCount,
    currentAction,
    currentPrompt,          \* the text the next generation is prompted with, as its parts
    fallbackSearchContext,  \* "" | "results" | "noresults"
    finalResponseText,      \* the text, as the sequence of the chunks appended to it
    generatedThisLoop,      \* the kinds of the chunks generated in this iteration
    streamed,               \* the chunks handed to onStreamChunk, in order
    searchCalls,            \* runWebSearch calls issued: <<[query, aborted]>>
    searchLog,              \* the runWebSearch call under way, and the last one if both providers failed
    dispatches,             \* generation dispatches started by the loop
    result,                 \* what runAutonomousAgent returned
    abortedAt,              \* where the agent was when the signal was set
    setup,                  \* thinkingMode, the profile's settings, memoryContextString
                            \* and thinkingBudget of the request
    \* ---- useChat (the session guard) ----
    isSendingRef,           \* isSendingRef.current
    isSending,              \* the isSending and isLoading UI flags (always set together)
    aiStatus,
    abortControllerRef,     \* the request whose controller the ref holds, or NoController
    activeChatIdRef,
    messages,               \* the displayed list; a text is named by where it comes from:
                            \* <<"user">>, <<>> (nothing yet), the deltas of currentText,
                            \* <<"agent">> (the result's own text), <<"error">> (the
                            \* catch block's)
    db,                     \* the messages persisted by addMessage: of which request,
                            \* from which sender, with which text
    requests,               \* per handleSendMessage call: its closure and its position
    storageLog,             \* per request: its storage side effects in the order
                            \* handleSendMessage made them
    sendLog,                \* the handleSendMessage calls so far, and how the last was answered
    \* ---- the provider streams, read chunk by chunk ----
    orStream,               \* generateOpenRouterStream's read loop: the response's bytes,
                            \* how many were read, buffer, and the deltas given to onChunk
    nativeStream,           \* the for-await loop over the native stream: the stream
                            \* chunks consumed and metadataPayload.groundingMetadata
    realtime,               \* the chat's realtime channel and history fetch: the rows
                            \* whose INSERT was notified, and the fetches resolved
    free                    \* generateFreeCompletion: the free providers tried, in
                            \* order, each with its outcome, and the modelUsed returned

retryVars == <<rpc, params_model, attempt, calls, responses, notices, delays, thrown>>

agentVars == <<pc, model, loopCount, currentAction, currentPrompt, fallbackSearchContext,
               finalResponseText, generatedThisLoop, streamed, searchCalls, searchLog,
               dispatches, result, abortedAt, setup>>

guardVars == <<isSendingRef, isSending, aiStatus, abortControllerRef, activeChatIdRef,
               messages, db, requests, storageLog, sendLog>>

streamVars == <<orStream, nativeStream, realtime, free>>

(***************************************************************************)
(* Bounds and program constants                                            *)
(***************************************************************************)

\* generateContentStreamWithRetry(ai, params, retries = 3, onRetry); the only
\* call site passes 3.
Retries == 3

FALLBACK_MODEL == "gemini-2.5-flash"

\* params.model as the caller may pass it; "" stands for undefined.
RetryModels == {"", "gemini-2.5-flash", "gemini-3-pro-preview"}

NoError == [status |-> 0, msg |-> "none"]

\* The provider's answer to a call that succeeded.
OkResponse == [status |-> 200, msg |-> "ok"]

(***************************************************************************)
(* Errors: what the catch block reads is error.status and the substrings   *)
(* of error.message.                                                       *)
(***************************************************************************)

\* The substrings the dispatcher looks for, per message text.
MsgIncludes(msg, sub) ==
    CASE msg = "model not found"                 -> sub \in {"not found"}
      [] msg = "Requested entity was not found." -> sub \in {"not found", "Requested entity was not found"}
      [] msg = "HTTP 404"                        -> sub \in {"404"}
      [] msg = "quota exceeded"                  -> sub \in {"quota"}
      [] msg = "429 Too Many Requests"           -> sub \in {"429"}
      [] OTHER                                   -> FALSE

E404      == [status |-> 404, msg |-> ""]
E400      == [status |-> 400, msg |-> ""]
EMsgNF    == [status |-> 0,   msg |-> "model not found"]
E429      == [status |-> 429, msg |-> ""]
EMsgQuota == [status |-> 0,   msg |-> "quota exceeded"]
E429NF    == [status |-> 429, msg |-> "Requested entity was not found."]
E500      == [status |-> 500, msg |-> ""]
ENet      == [status |-> 0,   msg |-> "fetch failed"]

ProviderErrors == {E404, E400, EMsgNF, E429, EMsgQuota, E429NF, E500, ENet}

\* line 69
IsNotFoundError(e) ==
    \/ e.status = 404
    \/ e.status = 400
    \/ (e.msg # "" /\ (\/ MsgIncludes(e.msg, "404")
                       \/ MsgIncludes(e.msg, "not found")
                       \/ MsgIncludes(e.msg, "Requested entity was not found")))

IsQuotaErrorEveryError(e) == TRUE

\* lines 81-83
IsQuotaError(e) ==
    \/ e.status = 429
    \/ (e.msg # "" /\ MsgIncludes(e.msg, "429"))
    \/ (e.msg # "" /\ MsgIncludes(e.msg, "quota"))

BackoffDelayLinear(a) == 5000 + 2000 * a

\* line 86: Math.pow(2, attempt) * 2000 + 1000
BackoffDelay(a) == (2 ^ a) * 2000 + 1000

\* Math.round(delay / 1000) of line 88
RoundSeconds(ms) == (ms + 500) \div 1000

RetryLoopCondOneMore(a) == a <= Retries + 1

\* line 65: attempt <= retries
RetryLoopCond(a) == a <= Retries

QuotaRetryAllowedAlways(e, a) == IsQuotaError(e)

\* line 85: isQuotaError && attempt < retries
QuotaRetryAllowed(e, a) == IsQuotaError(e) /\ a < Retries

IsFallbackModelNever(m) == FALSE

\* line 73: params.model === 'gemini-2.5-flash'
IsFallbackModel(m) == m = FALLBACK_MODEL

\* lines 60-63: an undefined model defaults to the fallback model
DefaultedModel(m) == IF m = "" THEN FALLBACK_MODEL ELSE m

MaxRetriesError == [status |-> 0, msg |-> "Max retries exceeded"]

(***************************************************************************)
(* generateContentStreamWithRetry                                          *)
(***************************************************************************)

\* One pass of the for loop's head with counter a and model m: either the
\* provider call of line 67 is issued, or the loop is left and line 95 throws.
\* log holds the calls this invocation has issued so far.
RetryLoopHead(a, m, log) ==
    /\ attempt' = a
    /\ params_model' = m
    /\ IF RetryLoopCond(a)
       THEN /\ rpc' = "call"
            /\ calls' = Append(log, [model |-> m, attempt |-> a, aborted |-> aborted])
            /\ thrown' = thrown
       ELSE /\ rpc' = "thrown"
            /\ calls' = log
            /\ thrown' = MaxRetriesError

\* The dispatcher is entered with params.model = m.
RetryInvoke(m) ==
    /\ rpc = "idle"
    /\ RetryLoopHead(0, DefaultedModel(m), <<>>)
    /\ UNCHANGED <<responses, notices, delays, aborted, guardVars, streamVars, faults, agentVars>>

\* line 67 resolves: the stream is returned to the caller.
RetryCallOk ==
    /\ rpc = "call"
    /\ rpc' = "returned"
    /\ responses' = Append(responses, OkResponse)
    /\ UNCHANGED <<params_model, attempt, calls, notices, delays, thrown, aborted, guardVars, streamVars, faults,
                   agentVars>>

\* line 67 rejects with e: the catch block of lines 68-93.
RetryCallFail(e) ==
    /\ rpc = "call"
    /\ responses' = Append(responses, e)
    /\ IF IsNotFoundError(e)
       THEN /\ notices' = Append(notices, [kind |-> "fallback", model |-> params_model, secs |-> 0])
            /\ delays' = delays
            /\ IF IsFallbackModel(params_model)
               THEN /\ rpc' = "thrown"
                    /\ thrown' = e
                    /\ UNCHANGED <<params_model, attempt, calls>>
               ELSE RetryLoopHead(attempt + 1, FALLBACK_MODEL, calls)
       ELSE IF QuotaRetryAllowed(e, attempt)
       THEN /\ notices' = Append(notices, [kind |-> "rate", model |-> params_model,
                                           secs |-> RoundSeconds(BackoffDelay(attempt))])
            /\ delays' = Append(delays, [attempt |-> attempt, ms |-> BackoffDelay(attempt)])
            /\ rpc' = "sleep"
            /\ UNCHANGED <<params_model, attempt, calls, thrown>>
       ELSE /\ rpc' = "thrown"
            /\ thrown' = e
            /\ UNCHANGED <<params_model, attempt, calls, notices, delays>>
    /\ faults' = faults + 1
    /\ UNCHANGED <<aborted, guardVars, streamVars, agentVars>>

\* line 89: the backoff timer fires; the for loop goes round.
RetrySleepDone ==
    /\ rpc = "sleep"
    /\ RetryLoopHead(attempt + 1, params_model, calls)
    /\ UNCHANGED <<responses, notices, delays, aborted, guardVars, streamVars, faults, agentVars>>

RetryInit ==
    /\ rpc = "idle"
    /\ params_model = ""
    /\ attempt = 0
    /\ calls = <<>>
    /\ responses = <<>>
    /\ notices = <<>>
    /\ delays = <<>>
    /\ thrown = NoError
    /\ aborted = FALSE
    /\ faults = 0

(***************************************************************************)
(* runAutonomousAgent: the loop of lines 385-627 and the catch of 629-637  *)
(***************************************************************************)

\* const MAX_LOOPS = 6
MAX_LOOPS == 6

\* The chunks the model streams in one request, over all its iterations.
MaxDeltas == 6

\* The chunks the model streams in one iteration.
MaxStreamChunks == 2

\* Provider errors injected into one request of SpecAgent.
MaxProviderErrors == 1

\* A streamed chunk is plain text or one whole tag pair with its content;
\* "SEARCH0" is a search tag pair whose query is blank.
Chunks == {"txt", "SEARCH", "SEARCH0", "DEEP", "IMAGE", "PROJECT", "CANVAS", "STUDY"}

\* What the provider streams in SpecAgent.
StreamChunks == Chunks

RoutingActions == {"SIMPLE", "DEEP_SEARCH", "IMAGE", "PROJECT", "CANVAS", "STUDY"}

\* routing.action as router.route may return it (line 267, 386)
InitActions == {"SIMPLE"}

\* The resolved model of a request: a native one, and a compatible one whose
\* user has an OpenRouter key.
AgentModels == {"gemini-3-pro-preview", "openai/gpt-4o"}

\* The provider errors of SpecAgent: one of each class.
AgentErrors == {E404, E429, E500}

\* lines 26-30
IsGoogleModel(m) ==
    \/ m = ""
    \/ m \in {"gemini-2.5-flash", "gemini-3-pro-preview", "veo-3", "google/gemma-2"}

\* line 520: the model's name includes 'vision', 'gemini', 'claude' or 'gpt-4'
SupportsVision(m) == m \in {"gemini-2.5-flash", "gemini-3-pro-preview", "openai/gpt-4o"}

\* line 262: isNative || model.includes('perplexity')
ModelSupportsSearch(m) == IsGoogleModel(m) \/ m \in {"perplexity/sonar"}

\* The letters String.prototype.toLowerCase maps, and their images.
UpperCase == <<"A", "B", "C", "D", "E", "F", "G", "H", "I", "J", "K", "L", "M", "N", "O", "P", "Q", "R", "S", "T", "U", "V", "W", "X", "Y", "Z">>

LowerCase == <<"a", "b", "c", "d", "e", "f", "g", "h", "i", "j", "k", "l", "m", "n", "o", "p", "q", "r", "s", "t", "u", "v", "w", "x", "y", "z">>

KeepCase(s) == s

\* line 18: userMessage.toLowerCase(); a message is its sequence of characters
ToLowerCase(s) ==
    [i \in DOMAIN s |->
        IF \E k \in DOMAIN UpperCase : UpperCase[k] = s[i]
        THEN LowerCase[CHOOSE k \in DOMAIN UpperCase : UpperCase[k] = s[i]]
        ELSE s[i]]

\* lines 19-32: the keywords
Keywords ==
    { <<"s", "e", "a", "r", "c", "h", " ", "o", "n", "l", "i", "n", "e">>,
      <<"s", "e", "a", "r", "c", "h", " ", "t", "h", "e", " ", "w", "e", "b">>,
      <<"l", "o", "o", "k", " ", "t", "h", "i", "s", " ", "u", "p">>,
      <<"b", "r", "o", "w", "s", "e">>,
      <<"c", "h", "e", "c", "k", " ", "i", "n", "t", "e", "r", "n", "e", "t">>,
      <<"l", "a", "t", "e", "s", "t">>,
      <<"t", "o", "d", "a", "y">>,
      <<"n", "e", "w", "s">>,
      <<"p", "r", "i", "c", "e">>,
      <<"w", "h", "o", " ", "i", "s">>,
      <<"w", "h", "a", "t", " ", "i", "s">>,
      <<"w", "h", "e", "n", " ", "d", "i", "d">> }

\* String.prototype.includes: kw occurs in s as a contiguous substring
Includes(s, kw) ==
    \E o \in 0..(Len(s) - Len(kw)) : \A i \in 1..Len(kw) : s[o + i] = kw[i]

\* line 34: keywords.some(kw => lower.includes(kw))
KeywordHit(userMessage) ==
    LET lower == ToLowerCase(userMessage)
    IN  \E kw \in Keywords : Includes(lower, kw)

\* The prompts a request is made with: without a keyword, with a keyword in
\* mixed case, with a keyword broken by a space, with a keyword inside a word.
UserMessages ==
    { <<"h", "i">>, <<"L", "a", "t", "e", "s", "t", " ", "N", "e", "w", "s">>, <<"n", "e", "w", " ", "s">>, <<"t", "o", "d", "a", "y", "s">> }

ShouldUseExternalSearchAnyModel(keywordHit, modelSupportsSearch, hasSearchTag) ==
    keywordHit \/ hasSearchTag

\* externalSearchService.ts, shouldUseExternalSearch, lines 16 and 35;
\* keywordHit is the value line 34 computes from the message
ShouldUseExternalSearch(keywordHit, modelSupportsSearch, hasSearchTag) ==
    IF modelSupportsSearch /\ ~hasSearchTag THEN FALSE
    ELSE keywordHit \/ hasSearchTag

HasTag(gen, t) == \E i \in DOMAIN gen : gen[i] = t

\* line 542: the matches of /<SEARCH>([\s\S]*?)<\/SEARCH>/g
SearchMatchCount(gen) == Cardinality({i \in DOMAIN gen : gen[i] \in {"SEARCH", "SEARCH0"}})

\* line 544: the trimmed, non-empty queries
HasQuery(gen) == HasTag(gen, "SEARCH")

\* lines 471-475: a canvas closing tag is in generatedThisLoop
HasCanvasClose(gen) == HasTag(gen, "CANVAS")

\* A chunk of text is named by a number: the n-th chunk the model streams in
\* a request is n; the texts the agent writes itself have numbers of their own.
\* line 618: fallbackSearchContext used as the response
FallbackContextChunk == 0

\* line 631: "(Generation stopped by user)"
StoppedByUserChunk == -1

\* line 636: the warning marker and getUserFriendlyError(error)
WarningChunk == -2

\* line 521: the text of the error thrown for an image sent to a model that
\* is not known to support vision
VisionErrorChunk == -6

\* the text of the message(s) runCanvasAgent returns
CanvasResultChunk == -3

\* line 274: the search tag around the prompt, streamed by the pre-emptive search
PreSearchTagChunk == -4

\* line 281: the debug output an admin is shown after the pre-emptive search
AdminDebugChunk == -5

NoResult == [kind |-> "none", text |-> <<>>, line |-> 0]

Returned(kind, text, line) == [kind |-> kind, text |-> text, line |-> line]

NeverAborted == [pc |-> "never", rpc |-> "idle", delivered |-> <<>>, faults |-> 0]

LoopCondInclusive(n) == n <= MAX_LOOPS

\* line 391: loopCount < MAX_LOOPS
LoopCond(n) == n < MAX_LOOPS

\* lines 533-540: the catch block drops primaryError and line 539 throws the
\* flag, the boolean true, whose .name is undefined.
GenerationFailureName(e) == "undefined"

OuterCatchRethrows(n, fin) ==
    IF n = "AbortError"
    THEN Returned("stopped", IF fin # <<>> THEN fin ELSE <<StoppedByUserChunk>>, 631)
    ELSE Returned("thrown", <<>>, 629)

\* lines 629-637: what the outer catch returns for a thrown value named n
\* when finalResponseText is fin
OuterCatch(n, fin) ==
    IF n = "AbortError"
    THEN Returned("stopped", IF fin # <<>> THEN fin ELSE <<StoppedByUserChunk>>, 631)
    ELSE Returned("error", <<WarningChunk>>, 636)

\* Lines 391-393, then the dispatch of this iteration (449-453 native, 526
\* compatible), or the return of line 627. fin is finalResponseText. The
\* dispatcher's logs are those of the iteration's own invocation.
LoopHead(fin) ==
    IF LoopCond(loopCount) /\ ~aborted
    THEN /\ loopCount' = loopCount + 1
         /\ generatedThisLoop' = <<>>
         /\ responses' = <<>>
         /\ notices' = <<>>
         /\ delays' = <<>>
         /\ IF IsGoogleModel(model)
            THEN /\ pc' = "generate"
                 /\ dispatches' = dispatches + 1
                 /\ result' = result
                 /\ RetryLoopHead(0, DefaultedModel(model), <<>>)
            ELSE IF ~setup.hasKey
            THEN \* line 481: throw new Error("OpenRouter API Key not found.")
                 /\ pc' = "done"
                 /\ result' = OuterCatch(GenerationFailureName("Error"), fin)
                 /\ calls' = <<>>
                 /\ UNCHANGED <<dispatches, rpc, params_model, attempt, thrown>>
            ELSE IF ~setup.hasImage \/ SupportsVision(model)
            THEN /\ pc' = "or_fetch"
                 /\ dispatches' = dispatches + 1
                 /\ result' = result
                 /\ calls' = <<[model |-> model, attempt |-> 0, aborted |-> aborted]>>
                 /\ UNCHANGED <<rpc, params_model, attempt, thrown>>
            ELSE \* lines 520-522: throw new Error("The selected model does not
                 \* support image inputs. ..."), inside the try of the iteration
                 /\ pc' = "done"
                 /\ result' = OuterCatch(GenerationFailureName("Error"), fin)
                 /\ calls' = <<>>
                 /\ UNCHANGED <<dispatches, rpc, params_model, attempt, thrown>>
    ELSE /\ pc' = "done"
         /\ result' = Returned("text", fin, 627)
         /\ UNCHANGED <<loopCount, generatedThisLoop, dispatches, retryVars>>

\* input.prompt, the text the user sent with this request
UserPrompt == <<"user">>

\* The synthesis prompt built from the current prompt of the loop.
SynthesisPromptOfCurrent(original, current, nonEmpty) ==
    <<IF nonEmpty THEN "synthesis" ELSE "synthesis-noresults">> \o current

\* lines 553 and 559: `USER ORIGINALLY ASKED: ${prompt}` followed by the
\* search context, or by the notice that nothing was found; `prompt` is the
\* request's input, not currentPrompt.
SynthesisPrompt(original, current, nonEmpty) ==
    <<IF nonEmpty THEN "synthesis" ELSE "synthesis-noresults">> \o original

\* `continue` that starts the next iteration with an empty response text
ContinueFresh(action, prompt, fin, strm) ==
    /\ currentAction' = action
    /\ currentPrompt' = prompt
    /\ finalResponseText' = <<>>
    /\ streamed' = strm
    /\ LoopHead(<<>>)
    /\ UNCHANGED <<fallbackSearchContext, searchCalls, searchLog>>

\* `continue` with a new action and prompt
Continue(action, prompt, fin, strm) ==
    /\ currentAction' = action
    /\ currentPrompt' = prompt
    /\ finalResponseText' = fin
    /\ streamed' = strm
    /\ LoopHead(fin)
    /\ UNCHANGED <<fallbackSearchContext, searchCalls, searchLog>>

\* `break` out of the while loop (line 586), to the return of line 627
BreakLoop(gen, fin, strm) ==
    /\ pc' = "done"
    /\ result' = Returned("text", fin, 627)
    /\ generatedThisLoop' = gen
    /\ finalResponseText' = fin
    /\ streamed' = strm
    /\ UNCHANGED <<loopCount, currentAction, currentPrompt, fallbackSearchContext, searchCalls, searchLog,
                   dispatches, retryVars>>

\* The canvas handoff without the reset of finalResponseText.
CanvasHandoffKeepsText(gen, strm) ==
    /\ pc' = "canvas"
    /\ finalResponseText' = strm
    /\ currentAction' = "CANVAS"
    /\ currentPrompt' = <<"canvas">>
    /\ generatedThisLoop' = gen
    /\ streamed' = strm
    /\ UNCHANGED <<loopCount, fallbackSearchContext, searchCalls, searchLog, dispatches, result,
                   retryVars>>

\* lines 602-608: the canvas handoff
CanvasHandoff(gen, strm) ==
    /\ pc' = "canvas"
    /\ finalResponseText' = <<>>
    /\ currentAction' = "CANVAS"
    /\ currentPrompt' = <<"canvas">>
    /\ generatedThisLoop' = gen
    /\ streamed' = strm
    /\ UNCHANGED <<loopCount, fallbackSearchContext, searchCalls, searchLog, dispatches, result,
                   retryVars>>

\* lines 617-622: the final return
FinalReturn(gen, fin, strm) ==
    /\ pc' = "done"
    /\ generatedThisLoop' = gen
    /\ IF fin = <<>> /\ fallbackSearchContext # ""
       THEN /\ finalResponseText' = <<FallbackContextChunk>>
            /\ streamed' = Append(strm, FallbackContextChunk)
       ELSE /\ finalResponseText' = fin
            /\ streamed' = strm
    /\ result' = Returned("text", finalResponseText', 622)
    /\ UNCHANGED <<loopCount, currentAction, currentPrompt, fallbackSearchContext, searchCalls, searchLog,
                   dispatches, retryVars>>

\* The tag transitions with the canvas handoff tested before the image and
\* project tags.
TagTransitionCanvasFirst(gen, fin, strm) ==
    IF HasTag(gen, "DEEP") THEN Continue("DEEP_SEARCH", <<"deep">>, fin, strm)
    ELSE IF SearchMatchCount(gen) = 1 /\ fallbackSearchContext = "" THEN BreakLoop(gen, fin, strm)
    ELSE IF HasTag(gen, "CANVAS") THEN CanvasHandoff(gen, strm)
    ELSE IF HasTag(gen, "IMAGE") THEN Continue("IMAGE", <<"image">>, fin, strm)
    ELSE IF HasTag(gen, "PROJECT") THEN Continue("PROJECT", <<"project">>, fin, strm)
    ELSE IF HasTag(gen, "STUDY") THEN Continue("STUDY", <<"study">>, fin, strm)
    ELSE FinalReturn(gen, fin, strm)

\* lines 568-622: the tag transitions, in the order of the code
TagTransition(gen, fin, strm) ==
    IF HasTag(gen, "DEEP") THEN Continue("DEEP_SEARCH", <<"deep">>, fin, strm)
    ELSE IF SearchMatchCount(gen) = 1 /\ fallbackSearchContext = "" THEN BreakLoop(gen, fin, strm)
    ELSE IF HasTag(gen, "IMAGE") THEN Continue("IMAGE", <<"image">>, fin, strm)
    ELSE IF HasTag(gen, "PROJECT") THEN Continue("PROJECT", <<"project">>, fin, strm)
    ELSE IF HasTag(gen, "CANVAS") THEN CanvasHandoff(gen, strm)
    ELSE IF HasTag(gen, "STUDY") THEN Continue("STUDY", <<"study">>, fin, strm)
    ELSE FinalReturn(gen, fin, strm)

\* The reactive search serviced only while the current action is SIMPLE.
PostGenerationSimpleOnly(gen, fin, strm) ==
    IF /\ currentAction = "SIMPLE"
       /\ SearchMatchCount(gen) > 0
       /\ HasQuery(gen)
       /\ ShouldUseExternalSearch(FALSE, ModelSupportsSearch(model), TRUE)
    THEN /\ pc' = "search"
         /\ searchCalls' = Append(searchCalls, [query |-> "q", aborted |-> aborted])
         /\ searchLog' = [primary |-> "pending", fallback |-> "none"]
         /\ generatedThisLoop' = gen
         /\ finalResponseText' = fin
         /\ streamed' = strm
         /\ UNCHANGED <<loopCount, currentAction, currentPrompt, fallbackSearchContext,
                        dispatches, result, retryVars>>
    ELSE TagTransition(gen, fin, strm)

\* lines 542-566, then 568-622: what follows the end of an iteration's stream
PostGeneration(gen, fin, strm) ==
    IF /\ SearchMatchCount(gen) > 0
       /\ HasQuery(gen)
       /\ ShouldUseExternalSearch(FALSE, ModelSupportsSearch(model), TRUE)
    THEN /\ pc' = "search"
         /\ searchCalls' = Append(searchCalls, [query |-> "q", aborted |-> aborted])
         /\ searchLog' = [primary |-> "pending", fallback |-> "none"]
         /\ generatedThisLoop' = gen
         /\ finalResponseText' = fin
         /\ streamed' = strm
         /\ UNCHANGED <<loopCount, currentAction, currentPrompt, fallbackSearchContext,
                        dispatches, result, retryVars>>
    ELSE TagTransition(gen, fin, strm)

\* The frame of an agent step that goes through PostGeneration or LoopHead.
\* line 307: JSON.parse(memoryContextString) throws a SyntaxError on the empty
\* string and returns an object on what JSON.stringify made of one.
JsonParseThrows(str) == str = ""

AgentFrame == UNCHANGED <<aborted, guardVars, streamVars, faults, model, abortedAt, setup>>

\* The same for the steps that may run lines 307-383.
LoopFrame == UNCHANGED <<aborted, guardVars, streamVars, faults, model, abortedAt>>

\* The emotions the claims tell apart.
EmotionNames == {"Serious", "Anger"}

\* scores of an EmotionData object: some of the names, each with a score on
\* one side of the threshold of line 335.
ScoreMaps == UNION {[D -> {50, 51}] : D \in SUBSET EmotionNames}

NoScores == [n \in {} |-> 0]

\* input.userEmotion is undefined
NoEmotion == [kind |-> "absent", dominant |-> "", hasScores |-> FALSE, scores |-> NoScores]

\* input.userEmotion: undefined, an emotion's name, or an EmotionData object
\* with or without scores.
UserEmotions ==
    {NoEmotion}
    \cup {[kind |-> "string", dominant |-> d, hasScores |-> FALSE, scores |-> NoScores] :
             d \in EmotionNames \cup {"Joy"}}
    \cup {[kind |-> "object", dominant |-> "Joy", hasScores |-> TRUE, scores |-> sc] :
             sc \in ScoreMaps}
    \cup {[kind |-> "object", dominant |-> "Joy", hasScores |-> FALSE, scores |-> NoScores]}

\* lines 322-329: the emotion data the scores are read from
EmotionDataOf(userEmotion) ==
    CASE userEmotion.kind = "absent" ->
            [dominant |-> "Neutral", hasScores |-> TRUE,
             scores |-> [n \in {"Neutral"} |-> 100]]
      [] userEmotion.kind = "string" ->
            [dominant |-> userEmotion.dominant, hasScores |-> TRUE,
             scores |-> [n \in {userEmotion.dominant} |-> 100]]
      [] OTHER ->
            [dominant |-> userEmotion.dominant, hasScores |-> userEmotion.hasScores,
             scores |-> userEmotion.scores]

\* emotionData.scores[name] || 0
ScoreOf(scores, name) == IF name \in DOMAIN scores THEN scores[name] ELSE 0

\* Serious mode from a score of 50 on.
IsSeriousModeFromFifty(emotionData) ==
    /\ emotionData.hasScores
    /\ \/ ScoreOf(emotionData.scores, "Serious") >= 50
       \/ ScoreOf(emotionData.scores, "Anger") >= 50

\* lines 331-338: isSeriousMode
IsSeriousMode(emotionData) ==
    /\ emotionData.hasScores
    /\ \/ ScoreOf(emotionData.scores, "Serious") > 50
       \/ ScoreOf(emotionData.scores, "Anger") > 50

\* lines 340-353: the social-intelligence block of the system instruction
EmotionBlock(userEmotion) ==
    IF IsSeriousMode(EmotionDataOf(userEmotion)) THEN "serious" ELSE "friendly"

\* The number of the next chunk the model streams.
NextChunk == Len(streamed) + 1

\* The awaits before the loop have resolved (router.route, line 267): the
\* loop is entered.
\* lines 307-391: JSON.parse(memoryContextString), the prompts, and the entry
\* of the loop; fin is finalResponseText
EnterLoop(fin) ==
    IF JsonParseThrows(setup.memoryContextString)
    THEN /\ pc' = "done"
         /\ result' = OuterCatch("SyntaxError", fin)
         /\ UNCHANGED <<loopCount, generatedThisLoop, dispatches, retryVars, setup>>
    ELSE /\ setup' = [setup EXCEPT !.emotionBlock = EmotionBlock(setup.userEmotion)]
         /\ LoopHead(fin)

\* lines 267-278: router.route has settled; the pre-emptive search streams
\* its tag and calls runWebSearch, or the loop is entered.
AgentStart ==
    /\ pc = "start"
    /\ IF ShouldUseExternalSearch(KeywordHit(setup.userMessage), ModelSupportsSearch(model), FALSE)
       THEN /\ pc' = "presearch"
            /\ streamed' = Append(streamed, PreSearchTagChunk)
            /\ finalResponseText' = Append(finalResponseText, PreSearchTagChunk)
            /\ searchCalls' = Append(searchCalls, [query |-> "prompt", aborted |-> aborted])
            /\ searchLog' = [primary |-> "pending", fallback |-> "none"]
            /\ UNCHANGED <<loopCount, generatedThisLoop, dispatches, result, retryVars, setup>>
       ELSE /\ EnterLoop(finalResponseText)
            /\ UNCHANGED <<finalResponseText, streamed, searchCalls, searchLog>>
    /\ UNCHANGED <<currentAction, currentPrompt, fallbackSearchContext>>
    /\ LoopFrame

AccumulateLatest(fin, chunk) == <<chunk>>

\* lines 459 and 529: finalResponseText += chunk
Accumulate(fin, chunk) == Append(fin, chunk)

\* lines 455-479: the native stream yields a chunk with text c
StreamChunk(c) ==
    /\ pc = "generate"
    /\ rpc = "returned"
    /\ IF aborted
       THEN PostGeneration(generatedThisLoop, finalResponseText, streamed)
       ELSE /\ Len(streamed) < MaxDeltas
            /\ Len(generatedThisLoop) < MaxStreamChunks
            /\ LET gen == Append(generatedThisLoop, c)
                   fin == Accumulate(finalResponseText, NextChunk)
                   strm == Append(streamed, NextChunk)
               IN IF HasCanvasClose(gen)
                  THEN PostGeneration(gen, fin, strm)
                  ELSE /\ generatedThisLoop' = gen
                       /\ finalResponseText' = fin
                       /\ streamed' = strm
                       /\ UNCHANGED <<pc, loopCount, currentAction, currentPrompt,
                                      fallbackSearchContext, searchCalls, searchLog, dispatches, result,
                                      retryVars>>
    /\ AgentFrame

\* the native stream is exhausted
StreamEnd ==
    /\ pc = "generate"
    /\ rpc = "returned"
    /\ PostGeneration(generatedThisLoop, finalResponseText, streamed)
    /\ AgentFrame

\* generateContentStreamWithRetry threw: lines 533-540, then 629-637
DispatchFailed ==
    /\ pc = "generate"
    /\ rpc = "thrown"
    /\ pc' = "done"
    /\ result' = OuterCatch(GenerationFailureName("Error"), finalResponseText)
    /\ UNCHANGED <<retryVars, aborted, guardVars, streamVars, faults, model, loopCount, currentAction, currentPrompt,
                   fallbackSearchContext, finalResponseText, generatedThisLoop, streamed,
                   searchCalls, searchLog, dispatches, abortedAt, setup>>

\* generateOpenRouterStream: the fetch of line 105 resolves with response.ok
ORFetchOk ==
    /\ pc = "or_fetch"
    /\ ~aborted
    /\ pc' = "or_stream"
    /\ responses' = Append(responses, OkResponse)
    /\ UNCHANGED <<rpc, params_model, attempt, calls, notices, delays, thrown, aborted, guardVars, streamVars,
                   faults, model, loopCount, currentAction, currentPrompt, fallbackSearchContext,
                   finalResponseText, generatedThisLoop, streamed, searchCalls, searchLog, dispatches,
                   result, abortedAt, setup>>

\* generateOpenRouterStream throws an Error: the response is not ok (lines
\* 122-131), has no body (133), or the network fails
ORFail(e) ==
    /\ pc \in {"or_fetch", "or_stream"}
    /\ pc' = "done"
    /\ responses' = Append(responses, e)
    /\ faults' = faults + 1
    /\ result' = OuterCatch(GenerationFailureName("Error"), finalResponseText)
    /\ UNCHANGED <<rpc, params_model, attempt, calls, notices, delays, thrown, aborted, guardVars, streamVars,
                   model, loopCount, currentAction, currentPrompt, fallbackSearchContext,
                   finalResponseText, generatedThisLoop, streamed, searchCalls, searchLog, dispatches,
                   abortedAt, setup>>

\* The signal given to fetch (line 119) is set: the pending fetch or read
\* rejects with an AbortError
ORAbortError ==
    /\ pc \in {"or_fetch", "or_stream"}
    /\ aborted
    /\ pc' = "done"
    /\ result' = OuterCatch(GenerationFailureName("AbortError"), finalResponseText)
    /\ UNCHANGED <<retryVars, aborted, guardVars, streamVars, faults, model, loopCount, currentAction, currentPrompt,
                   fallbackSearchContext, finalResponseText, generatedThisLoop, streamed,
                   searchCalls, searchLog, dispatches, abortedAt, setup>>

\* lines 526-531: the compatible stream delivers content c to the callback.
\* (Once the signal is set the body is errored and no content is delivered.)
ORChunk(c) ==
    /\ pc = "or_stream"
    /\ ~aborted
    /\ Len(streamed) < MaxDeltas
    /\ Len(generatedThisLoop) < MaxStreamChunks
    /\ generatedThisLoop' = Append(generatedThisLoop, c)
    /\ finalResponseText' = Accumulate(finalResponseText, NextChunk)
    /\ streamed' = Append(streamed, NextChunk)
    /\ UNCHANGED <<retryVars, aborted, guardVars, streamVars, faults, pc, model, loopCount, currentAction, currentPrompt,
                   fallbackSearchContext, searchCalls, searchLog, dispatches, result, abortedAt, setup>>

\* generateOpenRouterStream returns: [DONE] was read, or the body ended
ORStreamEnd ==
    /\ pc = "or_stream"
    /\ PostGeneration(generatedThisLoop, finalResponseText, streamed)
    /\ AgentFrame

\* lines 548-563: runWebSearch resolves, with results or with none
\* runWebSearch settles. After the pre-emptive search (lines 280-305) the
\* admin's debug output is appended and the loop is entered; after a reactive
\* search (lines 547-563) the synthesis prompt is set and the loop continues.
SearchReturn(nonEmpty) ==
    /\ pc \in {"search", "search_fb", "presearch", "presearch_fb"}
    /\ IF pc \in {"presearch", "presearch_fb"}
       THEN LET fin == IF setup.admin THEN Append(finalResponseText, AdminDebugChunk)
                                     ELSE finalResponseText
            IN  /\ finalResponseText' = fin
                /\ streamed' = IF setup.admin THEN Append(streamed, AdminDebugChunk)
                                              ELSE streamed
                /\ EnterLoop(fin)
                /\ UNCHANGED <<fallbackSearchContext, currentPrompt, currentAction>>
       ELSE /\ fallbackSearchContext' = IF nonEmpty THEN "results" ELSE "noresults"
            /\ currentPrompt' = SynthesisPrompt(UserPrompt, currentPrompt, nonEmpty)
            /\ currentAction' = "SIMPLE"
            /\ LoopHead(finalResponseText)
            /\ UNCHANGED <<finalResponseText, streamed, setup>>
    /\ UNCHANGED searchCalls
    /\ LoopFrame

\* What the primary provider answers with status ok and a body that parses:
\* success and a results array with entries ("results") or without
\* ("empty"), or a payload whose success is not true or whose results is no
\* array ("malformed").
PrimaryOutcomes == {"results", "empty", "malformed"}

\* externalSearchService.ts, runBubbleSearch resolves (lines 60-70):
\* data.results mapped when data.success and results is an array, [] by the
\* `return []` of line 70 otherwise; runWebSearch returns it.
BubbleSearchOk(outcome) ==
    /\ pc \in {"search", "presearch"}
    /\ searchLog' = IF outcome = "malformed"
                    THEN [primary |-> "malformed", fallback |-> "none"]
                    ELSE [primary |-> "none", fallback |-> "none"]
    /\ SearchReturn(outcome = "results")

\* runBubbleSearch throws (the 8 s timeout aborts the fetch, the network
\* fails, the status is not ok, the body is no JSON): the catch of
\* runWebSearch calls runDuckDuckGoFallback.
BubbleSearchFail ==
    /\ pc \in {"search", "presearch"}
    /\ pc' = IF pc = "search" THEN "search_fb" ELSE "presearch_fb"
    /\ searchLog' = [primary |-> "failed", fallback |-> "pending"]
    /\ UNCHANGED <<retryVars, aborted, guardVars, streamVars, faults, model, loopCount, currentAction,
                   currentPrompt, fallbackSearchContext, finalResponseText, generatedThisLoop,
                   streamed, searchCalls, dispatches, result, abortedAt, setup>>

\* What the fallback provider does: it answers with results, with none, with
\* a status that is not ok, or the fetch or the payload's parsing throws.
FallbackOutcomes == {"results", "empty", "notok", "throws"}

\* runDuckDuckGoFallback with its try/catch dropped.
RunDuckDuckGoFallbackRethrows(outcome) ==
    [threw |-> outcome = "throws", nonEmpty |-> outcome = "results"]

\* runDuckDuckGoFallback (lines 81-116): `if (!resp.ok) return []`, and the
\* catch returns [].
RunDuckDuckGoFallback(outcome) ==
    [threw |-> FALSE, nonEmpty |-> outcome = "results"]

\* runDuckDuckGoFallback settles and runWebSearch settles with it; an
\* exception would reach the agent's outer catch (lines 629-637).
DuckDuckGoDone(outcome) ==
    /\ pc \in {"search_fb", "presearch_fb"}
    /\ searchLog' = IF outcome \in {"notok", "throws"}
                    THEN [primary |-> "failed", fallback |-> "failed"]
                    ELSE [primary |-> "none", fallback |-> "none"]
    /\ LET res == RunDuckDuckGoFallback(outcome) IN
         IF res.threw
         THEN /\ pc' = "done"
              /\ result' = OuterCatch("Error", finalResponseText)
              /\ UNCHANGED <<retryVars, loopCount, currentAction, currentPrompt,
                             fallbackSearchContext, finalResponseText, generatedThisLoop,
                             streamed, searchCalls, dispatches>>
              /\ AgentFrame
         ELSE SearchReturn(res.nonEmpty)

\* line 607-608: runCanvasAgent resolves; its result is returned
CanvasReturn ==
    /\ pc = "canvas"
    /\ pc' = "done"
    /\ result' = Returned("canvas", <<CanvasResultChunk>>, 608)
    /\ UNCHANGED <<retryVars, aborted, guardVars, streamVars, faults, model, loopCount, currentAction, currentPrompt,
                   fallbackSearchContext, finalResponseText, generatedThisLoop, streamed,
                   searchCalls, searchLog, dispatches, abortedAt, setup>>

\* runCanvasAgent rejects with an error named n: lines 629-637
CanvasThrow(n) ==
    /\ pc = "canvas"
    /\ n = "AbortError" => aborted
    /\ pc' = "done"
    /\ result' = OuterCatch(n, finalResponseText)
    /\ UNCHANGED <<retryVars, aborted, guardVars, streamVars, faults, model, loopCount, currentAction, currentPrompt,
                   fallbackSearchContext, finalResponseText, generatedThisLoop, streamed,
                   searchCalls, searchLog, dispatches, abortedAt, setup>>

\* Where the agent is suspended in an await.
Suspended ==
    \/ pc \in {"start", "or_fetch", "or_stream", "search", "search_fb", "presearch",
               "presearch_fb", "canvas"}
    \/ pc = "generate" /\ rpc \in {"call", "sleep", "returned"}

\* The caller sets the request's cancellation signal (abortController.abort())
Abort ==
    /\ ~aborted
    /\ Suspended
    /\ aborted' = TRUE
    /\ abortedAt' = [pc |-> pc, rpc |-> rpc, delivered |-> streamed, faults |-> faults]
    /\ UNCHANGED <<retryVars, guardVars, streamVars, setup, faults, pc, model, loopCount, currentAction, currentPrompt,
                   fallbackSearchContext, finalResponseText, generatedThisLoop, streamed,
                   searchCalls, searchLog, dispatches, result>>

(***************************************************************************)
(* Request setup (lines 164-257): the memory fetch, instant mode, and the  *)
(* resolution of the model from the requested model, the thinking mode and *)
(* the profile.                                                            *)
(***************************************************************************)

\* the models a request or a profile's preferred_deep_model can name; "" is
\* an absent one
RequestedModels == {"", "gemini-3-pro-preview", "veo-3", "openai/gpt-4o", "perplexity/sonar"}

ThinkingModes == {"instant", "fast", "think", "deep"}

\* line 254: model.includes('gemini-2.5') || model.includes('gemini-3')
IsThinkingGemini(m) == m \in {"gemini-2.5-flash", "gemini-3-pro-preview"}

\* lines 228-257, for the requested model m, thinking mode and profile of s
ResolveModel(m, s) ==
    LET m0 == IF m = "" THEN "gemini-2.5-flash" ELSE m
        keyMissing == ~IsGoogleModel(m0) /\ ~s.hasKey
        m1 == IF keyMissing THEN "gemini-2.5-flash" ELSE m0
        n1 == keyMissing \/ IsGoogleModel(m0)
        m2 == CASE s.thinkingMode = "deep" ->
                      IF s.preferredDeep # "" THEN s.preferredDeep
                                              ELSE "gemini-3-pro-preview"
                 [] s.thinkingMode = "think" -> "gemini-2.5-flash"
                 [] OTHER -> m1
        budget == CASE s.thinkingMode = "deep" -> 8192
                    [] s.thinkingMode = "think" -> 2048
                    [] OTHER -> 0
        n2 == CASE s.thinkingMode = "deep" -> IsGoogleModel(m2)
                [] s.thinkingMode = "think" -> TRUE
                [] OTHER -> n1
        switch == budget > 0 /\ n2 /\ ~IsThinkingGemini(m2)
    IN  [model |-> IF switch THEN "gemini-2.5-flash" ELSE m2,
         isNative |-> n2,
         thinkingBudget |-> budget,
         notices |-> (IF keyMissing THEN <<"key-missing">> ELSE <<>>)
                     \o (IF switch THEN <<"thinking-switch">> ELSE <<>>)]

\* lines 167-179, then 181-182 or 228-257: memory.getContext settles, ok
\* telling whether it resolved; then the synchronous code up to the next
\* await, which is generateFreeCompletion in instant mode and router.route
\* otherwise.
MemoryFetched(ok) ==
    /\ pc = "memory"
    /\ LET str == IF ok THEN "json" ELSE ""
           r == ResolveModel(model, setup)
       IN  IF setup.thinkingMode = "instant"
           THEN /\ pc' = "instant"
                /\ setup' = [setup EXCEPT !.memoryContextString = str]
                /\ model' = model
           ELSE /\ pc' = "start"
                /\ setup' = [setup EXCEPT !.memoryContextString = str,
                                          !.thinkingBudget = r.thinkingBudget,
                                          !.notices = r.notices]
                /\ model' = r.model
    /\ UNCHANGED <<retryVars, guardVars, streamVars, aborted, faults, abortedAt, loopCount,
                   currentAction, currentPrompt, fallbackSearchContext,
                   finalResponseText, generatedThisLoop, streamed, searchCalls,
                   searchLog, dispatches, result>>

\* freeLlmService.ts line 191: "Instant AI services are currently busy. ..."
BusyChunk == -7

FreeProvidersLegacyFirst == <<"Legacy API", "Puter", "Hugging Face">>

\* freeLlmService.ts lines 179-189: tryPuter, then tryHuggingFace in its catch,
\* then tryLegacyApi in that one's catch
FreeProviders == <<"Puter", "Hugging Face", "Legacy API">>

\* The modelUsed a provider returns with its text (lines 46-68, 81-121, 151).
ModelUsed(provider) ==
    IF provider = "Puter" THEN "Instant (Auto)"
    ELSE IF provider = "Hugging Face" THEN "HF (microsoft/Phi-3-mini-4k-instruct)"
    ELSE "Legacy API"

\* generateFreeCompletion has not been called.
FreeIdle == [tried |-> <<>>, modelUsed |-> "none"]

\* freeLlmService.ts lines 179-195 and part_000 lines 211-221: the free
\* provider whose turn it is settles. Its text is streamed and returned with
\* its modelUsed; its failure is caught and the next provider is tried; the
\* failure of the last one is answered with the busy text, streamed and
\* returned as text with modelUsed 'Error'. generateFreeCompletion never
\* throws, so the catch of line 222 is not entered from it.
TryFreeProvider(ok) ==
    /\ pc = "instant"
    /\ Len(free.tried) < Len(FreeProviders)
    /\ LET provider == FreeProviders[Len(free.tried) + 1]
           tried == Append(free.tried, [provider |-> provider, ok |-> ok])
       IN  IF ok
           THEN /\ free' = [tried |-> tried, modelUsed |-> ModelUsed(provider)]
                /\ pc' = "done"
                /\ streamed' = Append(streamed, NextChunk)
                /\ result' = Returned("text", <<NextChunk>>, 216)
           ELSE IF Len(tried) = Len(FreeProviders)
           THEN /\ free' = [tried |-> tried, modelUsed |-> "Error"]
                /\ pc' = "done"
                /\ streamed' = Append(streamed, BusyChunk)
                /\ result' = Returned("busy", <<BusyChunk>>, 216)
           ELSE /\ free' = [free EXCEPT !.tried = tried]
                /\ UNCHANGED <<pc, streamed, result>>
    /\ UNCHANGED <<retryVars, guardVars, orStream, nativeStream, realtime, aborted, faults,
                   abortedAt, setup, model,
                   loopCount, currentAction, currentPrompt, fallbackSearchContext,
                   finalResponseText, generatedThisLoop, searchCalls, searchLog,
                   dispatches>>

\* runAutonomousAgent is called: any requested model, mode and profile.
SetupInit ==
    /\ pc = "memory"
    /\ model \in RequestedModels
    /\ setup \in [thinkingMode : ThinkingModes, hasKey : BOOLEAN,
                   preferredDeep : RequestedModels, userMessage : UserMessages,
                   admin : BOOLEAN, hasImage : BOOLEAN, userEmotion : UserEmotions,
                   emotionBlock : {""}, memoryContextString : {""},
                   thinkingBudget : {0}, notices : {<<>>}]
    /\ loopCount = 0
    /\ currentAction \in InitActions
    /\ currentPrompt = UserPrompt
    /\ fallbackSearchContext = ""
    /\ finalResponseText = <<>>
    /\ generatedThisLoop = <<>>
    /\ streamed = <<>>
    /\ searchCalls = <<>>
    /\ searchLog = [primary |-> "none", fallback |-> "none"]
    /\ dispatches = 0
    /\ result = NoResult
    /\ abortedAt = NeverAborted

\* The request's settings while the loop is studied on its own: fast mode, a
\* per-user key, the memory context fetched.
LoopSetup == [thinkingMode |-> "fast", hasKey |-> TRUE, preferredDeep |-> "",
              userMessage |-> <<"h", "i">>, admin |-> FALSE, hasImage |-> FALSE,
              userEmotion |-> NoEmotion, emotionBlock |-> "",
              memoryContextString |-> "json", thinkingBudget |-> 0, notices |-> <<>>]

AgentInit ==
    /\ pc = "start"
    /\ setup = LoopSetup
    /\ model \in AgentModels
    /\ loopCount = 0
    /\ currentAction \in InitActions
    /\ currentPrompt = UserPrompt
    /\ fallbackSearchContext = ""
    /\ finalResponseText = <<>>
    /\ generatedThisLoop = <<>>
    /\ streamed = <<>>
    /\ searchCalls = <<>>
    /\ searchLog = [primary |-> "none", fallback |-> "none"]
    /\ dispatches = 0
    /\ result = NoResult
    /\ abortedAt = NeverAborted

\* The agent's variables while the dispatcher is studied on its own.
AgentAbsent ==
    /\ pc = "absent"
    /\ setup = LoopSetup
    /\ model = ""
    /\ loopCount = 0
    /\ currentAction = "SIMPLE"
    /\ currentPrompt = UserPrompt
    /\ fallbackSearchContext = ""
    /\ finalResponseText = <<>>
    /\ generatedThisLoop = <<>>
    /\ streamed = <<>>
    /\ searchCalls = <<>>
    /\ searchLog = [primary |-> "none", fallback |-> "none"]
    /\ dispatches = 0
    /\ result = NoResult
    /\ abortedAt = NeverAborted

(***************************************************************************)
(* useChat: the session concurrency guard                                  *)
(* (src/components/settings/MemoryDashboard.tsx)                           *)
(*                                                                         *)
(* Each action is one run-to-completion step of the hook: a handler from   *)
(* its entry to its first await, or the continuation of handleSendMessage  *)
(* from one await to the next.  runAgent is an environment here: it calls  *)
(* onStreamChunk, and it returns or throws.  The component stays mounted   *)
(* (isMountedRef.current is true) and the user message's write succeeds.   *)
(***************************************************************************)

\* The most handleSendMessage calls of one behaviour.
MaxSends == 3

\* The most handleSendMessage calls of one behaviour of SpecSession.
MaxSessionSends == 1

\* The most deltas runAgent hands to one request's onStreamChunk.
MaxGuardDeltas == 2

\* The same in SpecGuard, with its three handleSendMessage calls.
MaxRaceDeltas == 1

ChatIds == {"chatA", "chatB"}

\* chatToUse = null, activeChatIdRef.current = null
NoChat == "null"

\* Requests are named by the number of the handleSendMessage call that made them.
Requests == 1..MaxSends

\* abortControllerRef.current = null
NoController == 0

NoRequest == [st |-> "none", chat |-> NoChat, gen |-> FALSE, aborted |-> FALSE,
              timer |-> FALSE, currentText |-> <<>>, delivered |-> 0,
              agentText |-> "none"]

\* A handleSendMessage call that has returned: its closure is gone and its
\* timeout is cleared (finally).
Done == [NoRequest EXCEPT !.st = "done"]

\* The request passed the in-flight check, and its agent call has not returned.
Admitted(r) == requests[r].st \in {"save_user", "agent"}

\* The request's runAgent call is running.
AgentRunning(r) == requests[r].st = "agent"

\* setMessages(prev => prev.map(m => m.id === tempId ? {...m, text} : m))
SetTempText(msgs, r, text) ==
    [i \in DOMAIN msgs |->
        IF msgs[i].id = "temp-ai" /\ msgs[i].req = r
        THEN [msgs[i] EXCEPT !.text = text]
        ELSE msgs[i]]

\* The final UI update: the temporary message is replaced by the saved one,
\* or the saved one is pushed when the temporary one is not in the list.
ReplaceTemp(msgs, r, saved) ==
    IF \E i \in DOMAIN msgs : msgs[i].id = "temp-ai" /\ msgs[i].req = r
    THEN [i \in DOMAIN msgs |->
            IF msgs[i].id = "temp-ai" /\ msgs[i].req = r THEN saved ELSE msgs[i]]
    ELSE Append(msgs, saved)

\* The final UI update when nothing was saved: newMessages.splice(tempMessageIndex, 1)
RemoveTemp(msgs, r) ==
    SelectSeq(msgs, LAMBDA m : ~(m.id = "temp-ai" /\ m.req = r))

\* messageContent.text || currentText
FinalContent(agentText, currentText) ==
    IF agentText = "text" THEN <<"agent">> ELSE currentText

\* finally: clearTimeout, isSendingRef.current = false, and the UI flags when
\* the request's chat is still the active one.
Finally(r) ==
    /\ requests' = [requests EXCEPT ![r] = Done]
    /\ isSendingRef' = FALSE
    /\ isSending' = IF activeChatIdRef = requests[r].chat THEN FALSE ELSE isSending

GuardFrame == UNCHANGED <<retryVars, aborted, faults, agentVars, streamVars>>

\* handleSendMessage, from its entry to its first await (the user message's save).
HandleSendMessage(chatToUse, shouldGenerate) ==
    /\ sendLog.n < MaxSends
    /\ GuardFrame
    /\ IF chatToUse = NoChat
       THEN /\ sendLog' = [n |-> sendLog.n + 1, last |-> "invalid"]
            /\ UNCHANGED <<isSendingRef, isSending, aiStatus, abortControllerRef,
                           activeChatIdRef, messages, db, storageLog, requests>>
       ELSE IF isSendingRef
       THEN /\ sendLog' = [n |-> sendLog.n + 1, last |-> "rejected"]
            /\ UNCHANGED <<isSendingRef, isSending, aiStatus, abortControllerRef,
                           activeChatIdRef, messages, db, storageLog, requests>>
       ELSE LET r == sendLog.n + 1
                user == [id |-> "temp-user", req |-> r, sender |-> "user",
                         text |-> <<"user">>]
                tempAi == [id |-> "temp-ai", req |-> r, sender |-> "ai",
                           text |-> <<>>]
            IN  /\ sendLog' = [n |-> sendLog.n + 1, last |-> "admitted"]
                /\ isSendingRef' = TRUE
                /\ isSending' = TRUE
                /\ aiStatus' = "thinking"
                /\ abortControllerRef' = r
                /\ activeChatIdRef' = chatToUse
                /\ requests' = [requests EXCEPT ![r] =
                        [st |-> "save_user", chat |-> chatToUse, gen |-> shouldGenerate,
                         aborted |-> FALSE, timer |-> TRUE, currentText |-> <<>>,
                         delivered |-> 0,
                         agentText |-> "none"]]
                /\ messages' = IF shouldGenerate
                               THEN messages \o <<user, tempAi>>
                               ELSE Append(messages, user)
                /\ UNCHANGED <<db, storageLog>>

\* The user message is saved; a request that generates calls runAgent, one
\* that does not resets the flags and returns.
SaveUserDone(r) ==
    /\ requests[r].st = "save_user"
    /\ GuardFrame
    /\ db' = db \cup {[req |-> r, sender |-> "user", text |-> <<"user">>]}
    /\ storageLog' = [storageLog EXCEPT ![r] = Append(@, "user")]
    /\ IF requests[r].gen
       THEN /\ requests' = [requests EXCEPT ![r].st = "agent"]
            /\ UNCHANGED <<isSendingRef, isSending, aiStatus>>
       ELSE /\ requests' = [requests EXCEPT ![r] = Done]
            /\ isSendingRef' = FALSE
            /\ isSending' = FALSE
            /\ aiStatus' = "idle"
    /\ UNCHANGED <<abortControllerRef, activeChatIdRef, messages, sendLog>>

AccumulateDeltaIfActive(active, currentText, chunk) ==
    IF active THEN Append(currentText, chunk) ELSE currentText

\* lines 791 and 796: currentText += chunk, in the branch of the active chat
\* and in the other one
AccumulateDelta(active, currentText, chunk) ==
    IF active THEN Append(currentText, chunk) ELSE Append(currentText, chunk)

ChunkNeverDropped(r) == FALSE

\* line 776: if (abortController.signal.aborted) return
ChunkDropped(r) == requests[r].aborted

\* onStreamChunk(chunk), for a chunk that holds the opening THINK tag
\* ("think") or none of the markers ("txt"). delivered counts the deltas
\* runAgent handed to the callback of a request that is not cancelled.
AgentChunk(r, chunk) ==
    /\ AgentRunning(r)
    /\ GuardFrame
    /\ IF ChunkDropped(r)
       THEN UNCHANGED <<requests, messages, aiStatus>>
       ELSE LET active == activeChatIdRef = requests[r].chat
                text == AccumulateDelta(active, requests[r].currentText, chunk)
            IN  /\ requests[r].delivered < MaxGuardDeltas
                /\ requests' = [requests EXCEPT ![r].currentText = text,
                                                ![r].delivered = @ + 1,
                                                ![r].timer = FALSE]
                /\ IF active
                   THEN /\ messages' = SetTempText(messages, r, text)
                        /\ aiStatus' = IF chunk = "think" THEN "planning" ELSE aiStatus
                   ELSE UNCHANGED <<messages, aiStatus>>
    /\ UNCHANGED <<isSendingRef, isSending, abortControllerRef, activeChatIdRef,
                   db, storageLog, sendLog>>

\* runAgent returns one message, with a text of its own ("text": the reply, or
\* the warning-prefixed error message) or with an empty text ("empty").
AbortIgnoredAfterAgent(r) == FALSE

\* line 835: abortController.signal.aborted, read when runAgent has returned
AbortedAfterAgent(r) == requests[r].aborted

AgentReturn(r, agentText) ==
    /\ AgentRunning(r)
    /\ GuardFrame
    /\ IF AbortedAfterAgent(r)
       THEN /\ aiStatus' = "idle"
            /\ Finally(r)
       ELSE /\ requests' = [requests EXCEPT ![r].st = "save_ai",
                                            ![r].agentText = agentText]
            /\ UNCHANGED <<isSendingRef, isSending, aiStatus>>
    /\ UNCHANGED <<abortControllerRef, activeChatIdRef, messages, db, storageLog, sendLog>>

\* runAgent throws an error of the given name.
AgentThrow(r, name) ==
    /\ AgentRunning(r)
    /\ GuardFrame
    /\ IF requests[r].aborted \/ name = "AbortError"
       THEN /\ aiStatus' = "idle"
            /\ UNCHANGED messages
       ELSE IF activeChatIdRef = requests[r].chat
       THEN /\ aiStatus' = "error"
            /\ messages' = SetTempText(messages, r, <<"error">>)
       ELSE UNCHANGED <<aiStatus, messages>>
    /\ Finally(r)
    /\ UNCHANGED <<abortControllerRef, activeChatIdRef, db, storageLog, sendLog>>

StorageEffectsMemoryFirst(ok) == <<"memory">> \o (IF ok THEN <<"ai">> ELSE <<>>)

\* lines 845-872 in the order of their effects: the AI message's write, when
\* it succeeds (ok), then extractAndSaveMemory
StorageEffects(ok) == (IF ok THEN <<"ai">> ELSE <<>>) \o <<"memory">>

\* The write of the agent's message settles, ok telling whether it succeeded;
\* then memory extraction is started, the list is updated and the result is
\* returned.
SaveAiDone(r, ok) ==
    /\ requests[r].st = "save_ai"
    /\ GuardFrame
    /\ LET text == FinalContent(requests[r].agentText, requests[r].currentText)
           saved == [id |-> "saved", req |-> r, sender |-> "ai", text |-> text]
       IN  /\ db' = IF ok THEN db \cup {[req |-> r, sender |-> "ai", text |-> text]}
                          ELSE db
           /\ storageLog' = [storageLog EXCEPT ![r] = @ \o StorageEffects(ok)]
           /\ IF activeChatIdRef = requests[r].chat
              THEN /\ messages' = IF ok THEN ReplaceTemp(messages, r, saved)
                                        ELSE RemoveTemp(messages, r)
                   /\ aiStatus' = "idle"
              ELSE UNCHANGED <<messages, aiStatus>>
    /\ Finally(r)
    /\ UNCHANGED <<abortControllerRef, activeChatIdRef, sendLog>>

HandleStopGeneration ==
    /\ GuardFrame
    /\ requests' = IF abortControllerRef # NoController
                   THEN [requests EXCEPT ![abortControllerRef].aborted = TRUE]
                   ELSE requests
    /\ abortControllerRef' = NoController
    /\ isSending' = FALSE
    /\ isSendingRef' = FALSE
    /\ aiStatus' = "idle"
    /\ UNCHANGED <<activeChatIdRef, messages, db, storageLog, sendLog>>

\* The request's safety timeout fires, 300000 ms after it was installed.
SafetyTimeout(r) ==
    /\ requests[r].timer
    /\ GuardFrame
    /\ IF isSendingRef /\ ~requests[r].aborted
       THEN /\ requests' = [requests EXCEPT ![r].aborted = TRUE, ![r].timer = FALSE]
            /\ isSendingRef' = FALSE
            /\ isSending' = FALSE
            /\ aiStatus' = "error"
       ELSE /\ requests' = [requests EXCEPT ![r].timer = FALSE]
            /\ UNCHANGED <<isSendingRef, isSending, aiStatus>>
    /\ UNCHANGED <<abortControllerRef, activeChatIdRef, messages, db, storageLog, sendLog>>

HandleSelectChat(chat) ==
    /\ activeChatIdRef # chat
    /\ GuardFrame
    /\ activeChatIdRef' = chat
    /\ UNCHANGED <<isSendingRef, isSending, aiStatus, abortControllerRef, messages, db, storageLog,
                   requests, sendLog>>

\* The most history fetches that resolve in one behaviour.
MaxFetches == 1

\* The chat whose rows the realtime channel and the history fetch deliver.
RealtimeChat == "chatA"

RealtimeIdle == [notified |-> {}, fetches |-> 0]

\* The message addMessage stores for a request: the persisted record with
\* the id the database gave it.
SavedMessage(r, sender, text) ==
    [id |-> IF sender = "ai" THEN "saved" ELSE "saved-user", req |-> r,
     sender |-> sender, text |-> text]

\* m.id.startsWith('temp-')
IsTemp(m) == m.id \in {"temp-user", "temp-ai"}

\* m.id === other.id: ids are told apart by the request and the kind
SameId(m, other) == m.id = other.id /\ m.req = other.req

\* lines 530-537: the realtime INSERT handler's update of the list
RealtimeMerge(prev, newMsg) ==
    IF \E i \in DOMAIN prev : SameId(prev[i], newMsg) THEN prev
    ELSE Append(SelectSeq(prev, LAMBDA m :
                    ~IsTemp(m) \/ ~(m.text = newMsg.text /\ m.sender = newMsg.sender)),
                newMsg)

\* The texts of the rows of a request and a sender the database holds or is
\* writing: the write of the user message or of the AI message may be
\* committed before its response reaches handleSendMessage.
RowTexts(r, sender) ==
    {row.text : row \in {x \in db : x.req = r /\ x.sender = sender}}
    \cup (IF sender = "user" /\ requests[r].st = "save_user" THEN {<<"user">>} ELSE {})
    \cup (IF sender = "ai" /\ requests[r].st = "save_ai"
          THEN {FinalContent(requests[r].agentText, requests[r].currentText)} ELSE {})

\* lines 524-538: the channel delivers the INSERT of a row of the chat, once
\* per row; the list is updated when that chat is the active one.
RealtimeInsert(r, sender) ==
    /\ <<r, sender>> \notin realtime.notified
    /\ \E text \in RowTexts(r, sender) :
          messages' = IF activeChatIdRef = RealtimeChat
                      THEN RealtimeMerge(messages, SavedMessage(r, sender, text))
                      ELSE messages
    /\ realtime' = [realtime EXCEPT !.notified = @ \cup {<<r, sender>>}]
    /\ UNCHANGED <<retryVars, aborted, faults, agentVars, orStream, nativeStream, free,
                   isSendingRef, isSending, aiStatus, abortControllerRef, activeChatIdRef,
                   db, requests, storageLog, sendLog>>

RECURSIVE History(_)
\* getMessages: the chat's persisted messages of the requests from r on, in
\* the order they were created
History(r) ==
    IF r \notin Requests THEN <<>>
    ELSE LET user == {x \in db : x.req = r /\ x.sender = "user"}
             ai == {x \in db : x.req = r /\ x.sender = "ai"}
         IN  (IF user = {} THEN <<>>
              ELSE <<SavedMessage(r, "user", (CHOOSE x \in user : TRUE).text)>>)
             \o (IF ai = {} THEN <<>>
                 ELSE <<SavedMessage(r, "ai", (CHOOSE x \in ai : TRUE).text)>>)
             \o History(r + 1)

\* lines 490-501: the merge of the fetched history with the optimistic
\* messages of the list
FetchMerge(prev, history) ==
    LET pendingOptimistic == SelectSeq(prev, IsTemp)
        isSaved(opt) == \E i \in DOMAIN history :
                            \/ history[i].text = opt.text /\ history[i].sender = opt.sender
                            \/ SameId(history[i], opt)
    IN  IF history = <<>> /\ pendingOptimistic # <<>> THEN pendingOptimistic
        ELSE history \o SelectSeq(pendingOptimistic, LAMBDA opt : ~isSaved(opt))

\* lines 474-509: a history fetch of the chat resolves while the chat is
\* still the active one.
FetchMessagesDone ==
    /\ realtime.fetches < MaxFetches
    /\ activeChatIdRef = RealtimeChat
    /\ messages' = FetchMerge(messages, History(1))
    /\ realtime' = [realtime EXCEPT !.fetches = @ + 1]
    /\ UNCHANGED <<retryVars, aborted, faults, agentVars, orStream, nativeStream, free,
                   isSendingRef, isSending, aiStatus, abortControllerRef, activeChatIdRef,
                   db, requests, storageLog, sendLog>>

GuardInit ==
    /\ isSendingRef = FALSE
    /\ isSending = FALSE
    /\ aiStatus = "idle"
    /\ abortControllerRef = NoController
    /\ activeChatIdRef = NoChat
    /\ messages = <<>>
    /\ db = {}
    /\ storageLog = [r \in Requests |-> <<>>]
    /\ requests = [r \in Requests |-> NoRequest]
    /\ sendLog = [n |-> 0, last |-> "none"]

(***************************************************************************)
(* generateOpenRouterStream: the read loop of lines 135-161                *)
(*                                                                         *)
(* The response body is a sequence of bytes, abstracted to the tokens the  *)
(* parser tells apart: "D" is the text `data: `, "a" and "b" are JSON      *)
(* objects whose choices[0].delta.content is the text a or b, "o" is a     *)
(* JSON object without content, "x" is a text JSON.parse rejects, "E" is   *)
(* the text `[DONE]`, and "n" is the newline.                              *)
(***************************************************************************)

\* The most lines of a response body.
MaxLines == 4

\* The lines a response is made of: data lines with a delta, without one,
\* with a malformed payload, the sentinel, and a line that is no data line.
BodyLines == {<<"D", "a">>, <<"D", "b">>, <<"D", "o">>, <<"D", "x">>, <<"D", "E">>, <<"a">>}

RECURSIVE Bodies(_)
\* The bodies of n newline-terminated lines.
Bodies(n) ==
    IF n = 0 THEN {<<>>}
    ELSE {l \o <<"n">> \o rest : l \in BodyLines, rest \in Bodies(n - 1)}

\* The response bodies: up to MaxLines terminated lines, then nothing or a
\* data line the server did not terminate.
Responses ==
    {b \o t : b \in UNION {Bodies(n) : n \in 0..MaxLines}, t \in {<<>>, <<"D", "a">>}}

OrStreamIdle == [st |-> "idle", response |-> <<>>, pos |-> 0, buffer |-> <<>>,
                 forwarded |-> <<>>, midLine |-> FALSE]

RECURSIVE Split(_)
\* buffer.split('\n'): the pieces between the newlines, the last one being
\* what follows the last newline
Split(s) ==
    IF s = <<>> THEN << <<>> >>
    ELSE LET r == Split(Tail(s))
         IN  IF Head(s) = "n" THEN << <<>> >> \o r
                              ELSE << <<Head(s)>> \o Head(r) >> \o Tail(r)

\* JSON.parse(dataStr) returns
JsonParses(dataStr) == Len(dataStr) = 1 /\ dataStr[1] \in {"a", "b", "o"}

\* json.choices?.[0]?.delta?.content is a text
HasContent(dataStr) == dataStr[1] \in {"a", "b"}

RECURSIVE ProcessLines(_, _)
\* lines 146-159: the for loop over the complete lines; fwd is what onChunk
\* was given so far. `returned` tells that the sentinel ended the function.
ProcessLines(lines, fwd) ==
    IF lines = <<>> THEN [forwarded |-> fwd, returned |-> FALSE]
    ELSE LET line == Head(lines)
             isData == Len(line) >= 1 /\ line[1] = "D"
             dataStr == Tail(line)
         IN  IF ~isData THEN ProcessLines(Tail(lines), fwd)
             ELSE IF dataStr = <<"E">> THEN [forwarded |-> fwd, returned |-> TRUE]
             ELSE IF JsonParses(dataStr) /\ HasContent(dataStr)
             THEN ProcessLines(Tail(lines), Append(fwd, dataStr[1]))
             ELSE ProcessLines(Tail(lines), fwd)

\* The incomplete last piece thrown away.
NextBufferDropped(pieces) == <<>>

\* line 144: buffer = lines.pop() || ""
NextBuffer(pieces) == pieces[Len(pieces)]

\* lines 139-159: reader.read() resolves with the next k bytes of the body;
\* they are appended to buffer, the complete lines are processed and the
\* rest is kept.
ReaderRead(k) ==
    /\ orStream.st = "reading"
    /\ orStream.pos + k <= Len(orStream.response)
    /\ LET value == SubSeq(orStream.response, orStream.pos + 1, orStream.pos + k)
           pieces == Split(orStream.buffer \o value)
           lines == SubSeq(pieces, 1, Len(pieces) - 1)
           res == ProcessLines(lines, orStream.forwarded)
       IN  orStream' = [orStream EXCEPT
                            !.pos = @ + k,
                            !.buffer = NextBuffer(pieces),
                            !.forwarded = res.forwarded,
                            !.st = IF res.returned THEN "returned" ELSE "reading",
                            !.midLine = @ \/ NextBuffer(pieces) # <<>>]
    /\ UNCHANGED <<retryVars, aborted, faults, agentVars, guardVars, nativeStream, realtime, free>>

\* line 140: reader.read() resolves with done, the body being read to its
\* end; the loop is left.
ReaderDone ==
    /\ orStream.st = "reading"
    /\ orStream.pos = Len(orStream.response)
    /\ orStream' = [orStream EXCEPT !.st = "ended"]
    /\ UNCHANGED <<retryVars, aborted, faults, agentVars, guardVars, nativeStream, realtime, free>>

\* The read loop starts on some response body.
OrStreamInit ==
    orStream \in {[OrStreamIdle EXCEPT !.st = "reading", !.response = r] : r \in Responses}

(***************************************************************************)
(* runAutonomousAgent: the body of the for-await loop over the native      *)
(* stream (lines 455-479), with the grounding chunks each stream chunk     *)
(* carries.  The n-th grounding chunk of the stream is the number n.       *)
(***************************************************************************)

\* The most stream chunks of one native stream.
MaxNativeChunks == 3

\* chunk.text: a text without a canvas closing tag, a text that completes
\* one, or no text (undefined or "")
ChunkTexts == {"txt", "close", "none"}

\* How many grounding chunks one stream chunk carries in
\* candidates[0].groundingMetadata.groundingChunks.
GroundingCounts == 0..2

NativeStreamIdle == [st |-> "idle", chunks |-> <<>>, carried |-> 0,
                     groundingMetadata |-> <<>>]

\* lines 463-469: metadataPayload.groundingMetadata.push(...chunks)
PushGrounding(list, chunks) == list \o chunks

\* lines 455-478: the generator yields a stream chunk with the given text
\* that carries count grounding chunks. The signal is not aborted.
ConsumeChunk(text, count) ==
    /\ nativeStream.st = "streaming"
    /\ Len(nativeStream.chunks) < MaxNativeChunks
    /\ LET first == nativeStream.carried + 1
           grounding == [i \in 1..count |-> first + i - 1]
       IN  nativeStream' =
             [st |-> IF text = "close" THEN "ended" ELSE "streaming",
              chunks |-> Append(nativeStream.chunks, [text |-> text, grounding |-> grounding]),
              carried |-> nativeStream.carried + count,
              groundingMetadata |->
                  IF text # "none"
                  THEN PushGrounding(nativeStream.groundingMetadata, grounding)
                  ELSE nativeStream.groundingMetadata]
    /\ UNCHANGED <<retryVars, aborted, faults, agentVars, guardVars, orStream, realtime, free>>

\* The generator is exhausted and the loop is left.
ConsumeEnd ==
    /\ nativeStream.st = "streaming"
    /\ nativeStream' = [nativeStream EXCEPT !.st = "ended"]
    /\ UNCHANGED <<retryVars, aborted, faults, agentVars, guardVars, orStream, realtime, free>>

\* Line 455 is reached with no grounding metadata collected yet.
NativeStreamInit == nativeStream = [NativeStreamIdle EXCEPT !.st = "streaming"]

StreamAbsent ==
    /\ orStream = OrStreamIdle /\ nativeStream = NativeStreamIdle /\ realtime = RealtimeIdle
    /\ free = FreeIdle

vars == <<retryVars, aborted, faults, agentVars, guardVars, streamVars>>

InitRetry == RetryInit /\ AgentAbsent /\ GuardInit /\ StreamAbsent

NextRetry ==
    \/ \E m \in RetryModels : RetryInvoke(m)
    \/ RetryCallOk
    \/ \E e \in ProviderErrors : RetryCallFail(e)
    \/ RetrySleepDone

SpecRetry == InitRetry /\ [][NextRetry]_vars

InitAgent == RetryInit /\ AgentInit /\ GuardInit /\ StreamAbsent

NextAgent ==
    \/ AgentStart
    \/ RetryCallOk
    \/ \E e \in AgentErrors : faults < MaxProviderErrors /\ RetryCallFail(e)
    \/ RetrySleepDone
    \/ \E c \in StreamChunks : StreamChunk(c)
    \/ StreamEnd
    \/ DispatchFailed
    \/ ORFetchOk
    \/ faults < MaxProviderErrors /\ ORFail(E500)
    \/ ORAbortError
    \/ \E c \in StreamChunks : ORChunk(c)
    \/ ORStreamEnd
    \/ \E outcome \in {"results", "empty"} : BubbleSearchOk(outcome)
    \/ BubbleSearchFail
    \/ \E outcome \in FallbackOutcomes : DuckDuckGoDone(outcome)
    \/ CanvasReturn
    \/ \E n \in {"Error", "AbortError"} : CanvasThrow(n)
    \/ Abort

SpecAgent == InitAgent /\ [][NextAgent]_vars

InitSetup == RetryInit /\ SetupInit /\ GuardInit /\ StreamAbsent

\* The whole request with providers that answer: no provider error and no
\* cancellation.
NextSetup ==
    \/ \E ok \in BOOLEAN : MemoryFetched(ok)
    \/ \E ok \in BOOLEAN : TryFreeProvider(ok)
    \/ AgentStart
    \/ RetryCallOk
    \/ StreamChunk("txt")
    \/ StreamEnd
    \/ ORFetchOk
    \/ ORChunk("txt")
    \/ ORStreamEnd
    \/ \E outcome \in PrimaryOutcomes : BubbleSearchOk(outcome)
    \/ BubbleSearchFail
    \/ \E outcome \in FallbackOutcomes : DuckDuckGoDone(outcome)

SpecSetup == InitSetup /\ [][NextSetup]_vars

InitGuard == RetryInit /\ AgentAbsent /\ GuardInit /\ StreamAbsent

NextGuard ==
    \/ \E chat \in ChatIds \cup {NoChat}, gen \in BOOLEAN : HandleSendMessage(chat, gen)
    \/ \E r \in Requests : SaveUserDone(r)
    \/ \E r \in Requests : requests[r].delivered < MaxRaceDeltas /\ AgentChunk(r, "txt")
    \/ \E r \in Requests, t \in {"text", "empty"} : AgentReturn(r, t)
    \/ \E r \in Requests, n \in {"Error", "AbortError"} : AgentThrow(r, n)
    \/ \E r \in Requests, ok \in BOOLEAN : SaveAiDone(r, ok)
    \/ HandleStopGeneration
    \/ \E r \in Requests : SafetyTimeout(r)
    \/ \E chat \in ChatIds : HandleSelectChat(chat)

SpecGuard == InitGuard /\ [][NextGuard]_vars

\* The hook with at most MaxSessionSends calls of handleSendMessage.
NextSession ==
    \/ \E chat \in ChatIds \cup {NoChat}, gen \in BOOLEAN :
            sendLog.n < MaxSessionSends /\ HandleSendMessage(chat, gen)
    \/ \E r \in Requests : SaveUserDone(r)
    \/ \E r \in Requests, chunk \in {"txt", "think"} : AgentChunk(r, chunk)
    \/ \E r \in Requests, t \in {"text", "empty"} : AgentReturn(r, t)
    \/ \E r \in Requests, n \in {"Error", "AbortError"} : AgentThrow(r, n)
    \/ \E r \in Requests, ok \in BOOLEAN : SaveAiDone(r, ok)
    \/ HandleStopGeneration
    \/ \E r \in Requests : SafetyTimeout(r)
    \/ \E chat \in ChatIds : HandleSelectChat(chat)

SpecSession == InitGuard /\ [][NextSession]_vars

\* The hook with the realtime channel and the history fetch of the chat
\* the requests are sent to. A write whose INSERT was notified has
\* succeeded.
NextDisplay ==
    \/ \E gen \in BOOLEAN :
            sendLog.n < MaxSessionSends /\ HandleSendMessage(RealtimeChat, gen)
    \/ \E r \in Requests : SaveUserDone(r)
    \/ \E r \in Requests, chunk \in {"txt", "think"} : AgentChunk(r, chunk)
    \/ \E r \in Requests, t \in {"text", "empty"} : AgentReturn(r, t)
    \/ \E r \in Requests, n \in {"Error", "AbortError"} : AgentThrow(r, n)
    \/ \E r \in Requests, ok \in BOOLEAN :
            (<<r, "ai">> \in realtime.notified => ok) /\ SaveAiDone(r, ok)
    \/ HandleStopGeneration
    \/ \E r \in Requests : SafetyTimeout(r)
    \/ \E chat \in ChatIds : HandleSelectChat(chat)
    \/ \E r \in Requests, sender \in {"user", "ai"} : RealtimeInsert(r, sender)
    \/ FetchMessagesDone

SpecDisplay == InitGuard /\ [][NextDisplay]_vars

InitOrStream ==
    /\ RetryInit /\ AgentAbsent /\ GuardInit /\ OrStreamInit
    /\ nativeStream = NativeStreamIdle /\ realtime = RealtimeIdle /\ free = FreeIdle

\* One run of generateOpenRouterStream's read loop over a response body, the
\* reads cutting the body anywhere.
NextOrStream ==
    \/ \E k \in 1..Len(orStream.response) : ReaderRead(k)
    \/ ReaderDone

SpecOrStream == InitOrStream /\ [][NextOrStream]_vars

InitNativeStream ==
    /\ RetryInit /\ AgentAbsent /\ GuardInit /\ NativeStreamInit
    /\ orStream = OrStreamIdle /\ realtime = RealtimeIdle /\ free = FreeIdle

\* One native stream consumed by the loop of lines 455-479.
NextNativeStream ==
    \/ \E text \in ChunkTexts, count \in GroundingCounts : ConsumeChunk(text, count)
    \/ ConsumeEnd

SpecNativeStream == InitNativeStream /\ [][NextNativeStream]_vars

(***************************************************************************)
(* Claims about the dispatcher, checked under SpecRetry                    *)
(***************************************************************************)

Last(s) == s[Len(s)]

\* An error the catch block treats as a quota error: it is not taken by the
\* model-not-found branch, which is tested first.
QuotaClass(e) == (e.status = 429 \/ e.msg \in {"quota exceeded", "429 Too Many Requests"})
                 /\ e.status \notin {400, 404}
                 /\ e.msg \notin {"model not found", "Requested entity was not found.", "HTTP 404"}

NotFoundClass(e) == \/ e.status \in {400, 404}
                    \/ e.msg \in {"model not found", "Requested entity was not found.", "HTTP 404"}

\* C7 as stated: the backoff sleeps after attempts 0, 1 and 2 last 5000ms,
\* 7000ms and 9000ms.
C7_OriginalDelays ==
    \A i \in DOMAIN delays :
        /\ delays[i].attempt = 0 => delays[i].ms = 5000
        /\ delays[i].attempt = 1 => delays[i].ms = 7000
        /\ delays[i].attempt = 2 => delays[i].ms = 9000

\* C7 amended: a backoff sleep is only started after a quota error on attempt
\* 0, 1 or 2 and lasts 3000ms, 5000ms and 9000ms respectively
\* (2^attempt * 2000 + 1000); the retry that follows it is the next attempt.
C7_Delays ==
    /\ \A i \in DOMAIN delays :
        /\ delays[i].attempt \in 0..2
        /\ delays[i].attempt = 0 => delays[i].ms = 3000
        /\ delays[i].attempt = 1 => delays[i].ms = 5000
        /\ delays[i].attempt = 2 => delays[i].ms = 9000
    /\ rpc = "sleep" => Last(delays).attempt = attempt
    /\ \A i \in DOMAIN delays : \A j \in DOMAIN delays :
        i < j => delays[i].attempt < delays[j].attempt

\* C7 witness: three backoff sleeps were taken and the third retry was issued.
C7_Witness ==
    /\ Len(delays) = 3
    /\ rpc = "call"
    /\ attempt = 3

AllQuota == \A i \in DOMAIN responses : QuotaClass(responses[i])

\* C8: while the provider has answered every call with a quota error, each
\* error on attempts 0..2 is followed by a rate-limit notice and a wait and
\* then one retry; the 4th quota error is thrown as it is, after exactly 4
\* calls, 3 notices and 3 waits, and the dispatcher gives up no earlier.
C8_QuotaExhaustion ==
    AllQuota =>
        /\ Len(calls) <= Retries + 1
        /\ Len(notices) = Len(delays)
        /\ \A i \in DOMAIN notices : notices[i].kind = "rate"
        /\ rpc = "sleep" => /\ Len(notices) = Len(responses)
                            /\ Len(calls) = Len(responses)
        /\ rpc = "call" /\ Len(calls) > 0 => /\ Len(calls) = Len(responses) + 1
                                             /\ Len(notices) = Len(responses)
        /\ rpc = "thrown" => /\ Len(responses) = Retries + 1
                             /\ Len(calls) = Retries + 1
                             /\ Len(notices) = Retries
                             /\ Len(delays) = Retries
                             /\ thrown = Last(responses)
        /\ Len(responses) = Retries + 1 => rpc = "thrown"

\* C8 witness: four quota errors in a row, and the dispatcher has thrown.
C8_Witness ==
    /\ AllQuota
    /\ Len(responses) = 4
    /\ rpc = "thrown"

\* C9: a model-not-found/bad-request error answered while params.model is the
\* fallback model is thrown at once, with no further provider call; and the
\* models of the calls of one invocation change at most once.
C9_NoFallbackCycle ==
    /\ [][ ( /\ rpc = "call"
             /\ params_model = FALLBACK_MODEL
             /\ Len(responses') = Len(responses) + 1
             /\ NotFoundClass(Last(responses')) )
           => ( /\ rpc' = "thrown"
                /\ thrown' = Last(responses')
                /\ calls' = calls ) ]_vars
    /\ [](Cardinality({i \in 1..(Len(calls) - 1) : calls[i].model # calls[i + 1].model}) <= 1)
    /\ [](\A i \in 1..(Len(calls) - 1) :
            calls[i].model = FALLBACK_MODEL => calls[i + 1].model = FALLBACK_MODEL)

\* C9 witness: the dispatcher fell back once, the fallback model answered
\* model-not-found as well, and that error was thrown.
C9_Witness ==
    /\ rpc = "thrown"
    /\ Len(calls) >= 2
    /\ calls[1].model # FALLBACK_MODEL
    /\ Last(calls).model = FALLBACK_MODEL
    /\ NotFoundClass(thrown)
    /\ Len(responses) = Len(calls)

\* C10 as stated: a model-not-found/bad-request error answered while
\* params.model is not the fallback model is always followed by the swap to
\* the fallback model, a notice and one further provider call with the
\* fallback model, on whichever attempt it occurs.
C10_FallbackAlwaysRetries ==
    [][ ( /\ rpc = "call"
          /\ params_model # FALLBACK_MODEL
          /\ Len(responses') = Len(responses) + 1
          /\ NotFoundClass(Last(responses')) )
        => ( /\ params_model' = FALLBACK_MODEL
             /\ Len(notices') = Len(notices) + 1
             /\ Last(notices').kind = "fallback"
             /\ rpc' = "call"
             /\ Len(calls') = Len(calls) + 1
             /\ Last(calls').model = FALLBACK_MODEL ) ]_vars


\* C23: when the provider answers a call with an error that is of neither
\* the model-not-found/bad-request class nor the quota class, the dispatcher
\* throws that error in the same step: no further call, no notice, no
\* backoff, no change of model; when it was the invocation's first call, the
\* invocation ends with exactly one provider call. Checked under SpecRetry.
C23_OtherErrorPropagates ==
    [][ ( /\ rpc = "call"
          /\ Len(responses') = Len(responses) + 1
          /\ Last(responses') # OkResponse
          /\ ~NotFoundClass(Last(responses'))
          /\ ~QuotaClass(Last(responses')) )
        => ( /\ rpc' = "thrown"
             /\ thrown' = Last(responses')
             /\ UNCHANGED <<calls, notices, delays, params_model, attempt>>
             /\ responses = <<>> => (Len(calls') = 1 /\ notices' = <<>>
                                        /\ params_model' = calls'[1].model) ) ]_vars

\* C23: the first call of an invocation was answered with a status 500, and
\* the dispatcher has thrown it.
C23_Witness ==
    /\ rpc = "thrown"
    /\ thrown = E500
    /\ Len(calls) = 1
    /\ notices = <<>>

(***************************************************************************)
(* Claims about runAutonomousAgent, checked under SpecAgent                *)
(***************************************************************************)

\* C2 as stated: no provider generation call and no web-search call is
\* started while the request's cancellation signal is set.
C2_NoCallAfterAbort ==
    /\ \A i \in DOMAIN calls : ~calls[i].aborted
    /\ \A i \in DOMAIN searchCalls : ~searchCalls[i].aborted

\* C3: the loop counter never exceeds 6 and never decreases, there are never
\* more generation dispatches than iterations, and a request that used up its
\* 6 iterations returns the accumulated text as a normal outcome.
C3_LoopBound ==
    /\ [](/\ loopCount \in 0..6
          /\ dispatches <= loopCount
          /\ (pc = "done" /\ result.line = 627)
                => (result.kind = "text" /\ result.text = finalResponseText))
    /\ [][loopCount' \in {loopCount, loopCount + 1}]_vars

\* C3 witness: the 6th iteration's output still carries a deep-reasoning tag,
\* and the agent has returned after 6 dispatches.
C3_Witness ==
    /\ pc = "done"
    /\ loopCount = 6
    /\ dispatches = 6
    /\ HasTag(generatedThisLoop, "DEEP")
    /\ result.kind = "text"

\* The signal was set while a stream was being consumed, after at least one
\* delta of the request had been delivered, and the provider reported no
\* failure of its own afterwards.
CancelledMidStream ==
    /\ aborted
    /\ \/ abortedAt.pc = "generate" /\ abortedAt.rpc = "returned"
       \/ abortedAt.pc = "or_stream"
    /\ abortedAt.delivered # <<>>
    /\ faults = abortedAt.faults

\* C5 as stated: a request cancelled after its first streamed delta returns
\* an outcome whose text is exactly the deltas delivered before the
\* cancellation, and no provider call is started after the cancellation.
C5_CancelKeepsDeltas ==
    (pc = "done" /\ CancelledMidStream) =>
        /\ result.text = abortedAt.delivered
        /\ \A i \in DOMAIN calls : ~calls[i].aborted

\* C6 as stated (agent layer): when the signal is set during generation, on
\* the native or the compatible path, and the provider reports no failure of
\* its own, runAutonomousAgent does not return the warning-prefixed error
\* message.
C6_CancelIsNotError ==
    ( /\ pc = "done"
      /\ aborted
      /\ abortedAt.pc \in {"generate", "or_fetch", "or_stream"}
      /\ faults = abortedAt.faults )
    => result.kind # "error"

\* C11 as stated: when an iteration's generation has ended with one search
\* tag carrying a query as its sole content, and there is no fallback search
\* context yet, no generation is dispatched again.
C11_SoleSearchTagTerminates ==
    [][ ( /\ pc = "search"
          /\ generatedThisLoop = <<"SEARCH">>
          /\ fallbackSearchContext = "" )
        => dispatches' = dispatches ]_vars

\* A tag that the transitions serve before the canvas tag: a deep-reasoning,
\* search, image or project tag.
HigherPriorityTag(gen) ==
    \/ HasTag(gen, "DEEP")
    \/ SearchMatchCount(gen) > 0
    \/ HasTag(gen, "IMAGE")
    \/ HasTag(gen, "PROJECT")

\* C12: when an iteration's generation ends, without an error, on an output
\* with a canvas tag pair and no higher-priority tag, the agent hands off to
\* the canvas collaborator with the accumulated text emptied and the tag
\* content as prompt; while the collaborator runs and afterwards there is no
\* further iteration, generation call or search call, and what the
\* collaborator returns is the agent's result.
C12_CanvasHandoff ==
    /\ [][ ( /\ pc \in {"generate", "or_stream"}
             /\ pc' # pc
             /\ result'.kind \notin {"error", "stopped"}
             /\ HasTag(generatedThisLoop', "CANVAS")
             /\ ~HigherPriorityTag(generatedThisLoop') )
           => ( /\ pc' = "canvas"
                /\ finalResponseText' = <<>>
                /\ currentPrompt' = <<"canvas">>
                /\ currentAction' = "CANVAS" ) ]_vars
    /\ [][ pc = "canvas"
           => ( /\ pc' \in {"canvas", "done"}
                /\ finalResponseText' = <<>>
                /\ loopCount' = loopCount
                /\ dispatches' = dispatches
                /\ calls' = calls
                /\ searchCalls' = searchCalls
                /\ (pc' = "done" /\ result'.kind \notin {"error", "stopped"})
                      => result' = Returned("canvas", <<CanvasResultChunk>>, 608) ) ]_vars

\* C12 witness: text was streamed before the canvas tag, and the agent has
\* returned the collaborator's result.
C12_Witness ==
    /\ pc = "done"
    /\ result.kind = "canvas"
    /\ Len(streamed) >= 2
    /\ finalResponseText = <<>>
    /\ generatedThisLoop = <<"txt", "CANVAS">>

\* C13: a runWebSearch call never ends the request with an exception: a
\* primary failure is followed by the fallback call, and when the fallback
\* fails too the search counts as having no results, the 'no results'
\* synthesis prompt is set and the loop goes on (to its next iteration, or to
\* its normal exit when the iterations are used up or the signal is set).
C13_SearchNeverThrows ==
    /\ [][ (pc = "search" /\ searchLog'.primary = "failed")
           => (pc' = "search_fb" /\ result' = result) ]_vars
    /\ [][ (pc \in {"search", "search_fb"} /\ pc' = "done")
           => (result'.kind = "text" /\ result'.line = 627) ]_vars
    /\ [][ ( /\ pc = "search_fb"
             /\ searchLog'.fallback = "failed" )
           => ( /\ fallbackSearchContext' = "noresults"
                /\ currentPrompt' = <<"synthesis-noresults">> \o UserPrompt
                /\ currentAction' = "SIMPLE"
                /\ \/ pc' \in {"generate", "or_fetch"} /\ loopCount' = loopCount + 1
                   \/ pc' = "done" /\ (aborted \/ loopCount = MAX_LOOPS) ) ]_vars

\* C13 witness: both providers failed, and the next
\* iteration is generating with the 'no results' synthesis prompt.
C13_Witness ==
    /\ searchLog = [primary |-> "failed", fallback |-> "failed"]
    /\ pc \in {"generate", "or_stream"}
    /\ currentPrompt = <<"synthesis-noresults">> \o UserPrompt
    /\ loopCount = 2

\* C14: a request in a mode other than instant whose memory-context fetch
\* failed still reaches generation and returns a normal outcome, not an
\* error. Checked under SpecSetup.
C14_MemoryFailureIsHarmless ==
    (pc = "done" /\ setup.thinkingMode # "instant" /\ setup.memoryContextString = "")
        => (dispatches >= 1 /\ result.kind = "text")

\* C15: whatever the requested model, the thinking mode and the profile, a
\* request without a per-user key has a native resolved model once setup is
\* over, and does not end in the error of the compatible path's missing key.
\* Checked under SpecSetup.
C15_NoKeyServedNatively ==
    (setup.thinkingMode # "instant" /\ ~setup.hasKey /\ pc # "memory")
        => /\ IsGoogleModel(model)
           /\ (setup.memoryContextString # "" /\ pc = "done") => result.kind # "error"

\* the elements of the sequence s
Range(s) == {s[i] : i \in DOMAIN s}

\* s is a prefix of t
IsPrefix(s, t) == Len(s) <= Len(t) /\ SubSeq(t, 1, Len(s)) = s

\* C18: in every step of a request the accumulated response text before the
\* step is a prefix of the text after it, except in the step of the canvas
\* handoff, which empties it. Checked under SpecAgent.
C18_AppendOnly ==
    [][ \/ IsPrefix(finalResponseText, finalResponseText')
        \/ (pc' = "canvas" /\ HasCanvasClose(generatedThisLoop')
                /\ finalResponseText' = <<>>) ]_vars

\* C18: the second iteration of the loop has appended its first delta to the
\* text of the first iteration.
C18_Witness ==
    /\ loopCount = 2
    /\ Len(generatedThisLoop) = 1
    /\ finalResponseText = <<1, 2>>

\* The generation call of the current iteration fails in this step with a
\* provider error: the dispatcher has thrown (native path), or the compatible
\* request or its stream fails.
GenerationFails ==
    \/ pc = "generate" /\ rpc = "thrown" /\ pc' # "generate"
    \/ /\ pc \in {"or_fetch", "or_stream"}
       /\ Len(responses') = Len(responses) + 1
       /\ responses'[Len(responses')] # OkResponse

\* C21: when an iteration's generation call fails with a provider error that
\* the dispatcher did not absorb, the agent returns in that step one message
\* whose text is the warning-prefixed error message, and starts no further
\* iteration, generation, search or canvas handoff; once it has returned
\* nothing changes any more. Checked under SpecAgent.
C21_FailedGenerationFailsRequest ==
    [][ /\ GenerationFails
            => /\ pc' = "done"
               /\ result' = Returned("error", <<WarningChunk>>, 636)
               /\ UNCHANGED <<loopCount, dispatches, searchCalls, calls, currentAction>>
        /\ pc = "done" => UNCHANGED <<pc, result, loopCount, dispatches, searchCalls, calls>> ]_vars

\* C21: the second iteration's generation failed after text had been
\* accumulated, nobody cancelled, and the agent has returned.
C21_Witness ==
    /\ pc = "done"
    /\ ~aborted
    /\ loopCount = 2
    /\ finalResponseText # <<>>
    /\ faults = 1
    /\ result.kind = "error"

\* C22: in a mode other than instant, once the model is resolved: a prompt
\* with a search keyword and a model that is not search-capable has its web
\* search called, with the prompt as query, before the first generation is
\* dispatched; a search-capable model, or a prompt without a keyword, has no
\* pre-emptive search. Checked under SpecSetup.
C22_PreemptiveSearch ==
    (setup.thinkingMode # "instant" /\ pc # "memory") =>
        LET preSearched == \E i \in DOMAIN searchCalls : searchCalls[i].query = "prompt"
        IN  /\ (KeywordHit(setup.userMessage) /\ ~ModelSupportsSearch(model) /\ (dispatches >= 1 \/ pc = "done"))
                    => (searchCalls # <<>> /\ searchCalls[1].query = "prompt")
            /\ pc \in {"presearch", "presearch_fb"} => dispatches = 0
            /\ (ModelSupportsSearch(model) \/ ~KeywordHit(setup.userMessage)) => ~preSearched

\* C22: the first generation of a request with a keyword and a model that is
\* not search-capable is running, after the pre-emptive search.
C22_Witness ==
    /\ pc = "or_stream"
    /\ dispatches = 1
    /\ KeywordHit(setup.userMessage)
    /\ ~ModelSupportsSearch(model)
    /\ Len(searchCalls) = 1
    /\ searchCalls[1].query = "prompt"

\* The generation of the current iteration ends in this step without a
\* failure and without a cancellation: the stream is exhausted, or the native
\* stream is left at a canvas closing tag.
IterationEnds ==
    /\ ~aborted
    /\ ~GenerationFails
    /\ \/ pc = "generate" /\ rpc = "returned"
       \/ pc = "or_stream"
    /\ pc' # pc \/ loopCount' = loopCount + 1

\* The output of the iteration that ends in this step: the native stream's
\* last chunk, the one with the canvas closing tag, is consumed in the step.
EndedOutput ==
    IF pc = "generate" /\ Len(streamed') = Len(streamed) + 1 /\ Last(streamed') > 0
    THEN Append(generatedThisLoop, "CANVAS")
    ELSE generatedThisLoop

\* The rule the stated order selects for the output gen.
FirstRule(gen) ==
    IF HasTag(gen, "DEEP") THEN "DEEP"
    ELSE IF SearchMatchCount(gen) = 1 /\ fallbackSearchContext = "" THEN "BREAK"
    ELSE IF HasTag(gen, "IMAGE") THEN "IMAGE"
    ELSE IF HasTag(gen, "PROJECT") THEN "PROJECT"
    ELSE IF HasTag(gen, "CANVAS") THEN "CANVAS"
    ELSE IF HasTag(gen, "STUDY") THEN "STUDY"
    ELSE "NONE"

\* The loop continues in this step with the given action and prompt; at the
\* iteration bound the agent returns instead (line 627).
Continues(action, prompt) ==
    /\ currentAction' = action
    /\ currentPrompt' = prompt
    /\ \/ loopCount' = loopCount + 1 /\ dispatches' = dispatches + 1
          /\ pc' \in {"generate", "or_fetch"}
       \/ ~LoopCond(loopCount) /\ pc' = "done" /\ result'.line = 627

\* C24: when an iteration's generation ends and no reactive search starts,
\* the one transition taken is the first that applies in the order
\* deep-reasoning, single-search-tag termination, image, project, canvas,
\* study; the canvas collaborator is called only when the canvas rule is the
\* first. Checked under SpecAgent.
C24_TransitionOrder ==
    [][ (IterationEnds /\ pc' # "search") =>
          LET rule == FirstRule(EndedOutput)
          IN  /\ rule = "DEEP" => Continues("DEEP_SEARCH", <<"deep">>)
              /\ rule = "BREAK" => (pc' = "done" /\ result'.line = 627
                                      /\ UNCHANGED <<currentAction, currentPrompt, dispatches>>)
              /\ rule = "IMAGE" => Continues("IMAGE", <<"image">>)
              /\ rule = "PROJECT" => Continues("PROJECT", <<"project">>)
              /\ rule = "CANVAS" => (pc' = "canvas" /\ currentAction' = "CANVAS"
                                       /\ UNCHANGED <<loopCount, dispatches>>)
              /\ rule = "STUDY" => Continues("STUDY", <<"study">>)
              /\ rule = "NONE" => (pc' = "done" /\ result'.line = 622
                                     /\ UNCHANGED <<currentAction, currentPrompt, dispatches>>)
              /\ pc' = "canvas" <=> rule = "CANVAS" ]_vars

\* C24: an output with a canvas tag and a study tag has been handed to the
\* canvas collaborator.
C24_Witness ==
    /\ pc = "canvas"
    /\ HasTag(generatedThisLoop, "CANVAS")
    /\ HasTag(generatedThisLoop, "STUDY")

\* C25: when an iteration's generation ends with an output that holds a
\* search tag with a query, whatever else it holds and whatever the current
\* action is, the web search is called in that step and no tag transition is
\* taken; when the search returns, the prompt is a synthesis prompt, the
\* action is SIMPLE and the next iteration starts with an empty output.
\* Checked under SpecAgent.
C25_SearchServicedFirst ==
    [][ /\ (IterationEnds /\ HasQuery(EndedOutput))
            => /\ pc' = "search"
               /\ Len(searchCalls') = Len(searchCalls) + 1
               /\ UNCHANGED <<currentAction, currentPrompt, loopCount, dispatches>>
        /\ (pc \in {"search", "search_fb"} /\ pc' \notin {"search", "search_fb"})
            => /\ currentAction' = "SIMPLE"
               /\ Head(currentPrompt') \in {"synthesis", "synthesis-noresults"}
               /\ pc' \in {"generate", "or_fetch", "done"}
               /\ pc' # "done" => generatedThisLoop' = <<>> ]_vars

\* C25: in an iteration whose action is not SIMPLE the output held a search
\* tag with a query and a canvas tag; the search has been called.
C25_Witness ==
    /\ pc = "search"
    /\ currentAction = "DEEP_SEARCH"
    /\ HasTag(generatedThisLoop, "SEARCH")
    /\ HasTag(generatedThisLoop, "CANVAS")

\* C27: the step in which a reactive search returns sets the current prompt
\* to a synthesis prompt that embeds the request's original prompt, whatever
\* the current prompt was when the search was called (the original prompt,
\* a tag's content or an earlier synthesis prompt), and sets the action to
\* SIMPLE.
C27_SynthesisEmbedsOriginal ==
    [][ (pc \in {"search", "search_fb"} /\ pc' \notin {"search", "search_fb"})
        => ( /\ currentPrompt' \in {<<"synthesis">> \o UserPrompt,
                                    <<"synthesis-noresults">> \o UserPrompt}
             /\ Head(currentPrompt') = "synthesis" <=> fallbackSearchContext' = "results"
             /\ currentAction' = "SIMPLE" ) ]_vars

\* C27 witness: the second reactive search of a request, called while the
\* current prompt was no longer the original one, has returned with results
\* and the next generation is under way with the synthesis prompt.
C27_Witness ==
    /\ Len(searchCalls) = 2
    /\ pc \in {"generate", "or_fetch", "or_stream"}
    /\ loopCount = 3
    /\ generatedThisLoop = <<>>
    /\ currentPrompt = <<"synthesis">> \o UserPrompt

\* C31 as stated: when an iteration on the compatible provider finds an
\* image among the files and a model not known to support vision, the
\* request ends without a provider call, and the returned message carries
\* the vision error's text after the warning marker. Checked under SpecSetup.
C31_VisionRejected ==
    [][ ( /\ pc \in {"start", "presearch", "presearch_fb"}
          /\ pc' \in {"or_fetch", "done"}
          /\ setup.memoryContextString = "json"
          /\ ~IsGoogleModel(model) /\ setup.hasKey
          /\ setup.hasImage /\ ~SupportsVision(model) )
        => ( /\ pc' = "done"
             /\ calls' = <<>>
             /\ dispatches' = dispatches
             /\ result'.kind = "error"
             /\ result'.text = <<WarningChunk, VisionErrorChunk>> ) ]_vars

\* C26 as stated: every failure of the primary search provider, a payload
\* without success = true or without a results array included, is followed
\* by the fallback provider's call, and the fallback is not called when the
\* primary returned results. Checked under SpecSetup.
C26_EveryFailureFallsBack ==
    [][ (pc = "search" \/ pc = "presearch")
        => ( /\ searchLog'.primary \in {"failed", "malformed"}
                => ( /\ pc' = (IF pc = "search" THEN "search_fb" ELSE "presearch_fb")
                     /\ searchLog'.fallback = "pending" )
             /\ searchLog'.primary = "none"
                => pc' \notin {"search_fb", "presearch_fb"} ) ]_vars

\* The score the request's emotion input gives a name: the score of an
\* EmotionData object, 100 for the emotion an input string names, and 0 for
\* a missing score, missing scores and a missing input.
InputScore(userEmotion, name) ==
    CASE userEmotion.kind = "object" /\ userEmotion.hasScores
                                     /\ name \in DOMAIN userEmotion.scores ->
            userEmotion.scores[name]
      [] userEmotion.kind = "string" /\ userEmotion.dominant = name -> 100
      [] OTHER -> 0

\* C28: the step that builds the system instruction chooses the serious
\* block exactly when the input's Serious score or its Anger score is above
\* 50 and the friendly block otherwise; it leaves the resolved model and the
\* thinking budget as they were, and the generation it dispatches goes to
\* the provider of that model, with that model. Checked under SpecSetup.
C28_SeriousMode ==
    [][ (setup.emotionBlock = "" /\ setup'.emotionBlock # "")
        => ( /\ setup'.emotionBlock \in {"serious", "friendly"}
             /\ setup'.emotionBlock = "serious"
                  <=> ( \/ InputScore(setup.userEmotion, "Serious") > 50
                        \/ InputScore(setup.userEmotion, "Anger") > 50 )
             /\ model' = model
             /\ setup'.thinkingBudget = setup.thinkingBudget
             /\ pc' = "generate" => IsGoogleModel(model)
             /\ pc' = "or_fetch" => ~IsGoogleModel(model)
             /\ pc' \in {"generate", "or_fetch"} => calls'[1].model = model ) ]_vars

\* C28 witness: an input whose Anger score is 51 and whose Serious score is
\* 50 has put a generation under way in serious mode.
C28_Witness ==
    /\ setup.userEmotion.kind = "object"
    /\ InputScore(setup.userEmotion, "Anger") = 51
    /\ "Serious" \in DOMAIN setup.userEmotion.scores
    /\ InputScore(setup.userEmotion, "Serious") = 50
    /\ setup.emotionBlock = "serious"
    /\ pc \in {"generate", "or_fetch"}

(***************************************************************************)
(* Claims about generateOpenRouterStream, checked under SpecOrStream       *)
(***************************************************************************)

RECURSIVE TerminatedLines(_, _)
\* The newline-terminated lines of a body, cur being the line under way.
TerminatedLines(body, cur) ==
    IF body = <<>> THEN <<>>
    ELSE IF Head(body) = "n" THEN <<cur>> \o TerminatedLines(Tail(body), <<>>)
    ELSE TerminatedLines(Tail(body), Append(cur, Head(body)))

RECURSIVE DeltasBeforeDone(_)
\* The deltas of the well-formed data lines that precede the sentinel.
DeltasBeforeDone(lines) ==
    IF lines = <<>> \/ Head(lines) = <<"D", "E">> THEN <<>>
    ELSE IF Head(lines) \in {<<"D", "a">>, <<"D", "b">>}
    THEN <<Head(lines)[2]>> \o DeltasBeforeDone(Tail(lines))
    ELSE DeltasBeforeDone(Tail(lines))

\* C29: however the reads cut the response body, what onChunk was given
\* after the first pos bytes is, in order, the deltas of the well-formed
\* newline-terminated data lines among them that precede [DONE]; malformed
\* lines are passed over, and once the loop is over, by [DONE] or by the
\* body's end, onChunk was given exactly those of the whole body.
C29_DeltasForwardedInOrder ==
    /\ orStream.st \in {"reading", "returned"}
        => orStream.forwarded = DeltasBeforeDone(
               TerminatedLines(SubSeq(orStream.response, 1, orStream.pos), <<>>))
    /\ orStream.st \in {"returned", "ended"}
        => orStream.forwarded = DeltasBeforeDone(TerminatedLines(orStream.response, <<>>))
    /\ orStream.st = "returned"
        => \E i \in 1..Len(TerminatedLines(orStream.response, <<>>)) :
              TerminatedLines(orStream.response, <<>>)[i] = <<"D", "E">>

\* C29 witness: a body with a malformed data line, a data line, the sentinel
\* and a further data line was read with some read ending inside a line;
\* the function returned at the sentinel having forwarded the one delta.
C29_Witness ==
    /\ orStream.st = "returned"
    /\ orStream.midLine
    /\ TerminatedLines(orStream.response, <<>>)
           = << <<"D", "x">>, <<"D", "a">>, <<"D", "E">>, <<"D", "b">> >>
    /\ orStream.forwarded = <<"a">>

(***************************************************************************)
(* Claims about the native stream loop, checked under SpecNativeStream     *)
(***************************************************************************)

RECURSIVE CarriedBy(_)
\* The grounding chunks the given stream chunks carry, in order.
CarriedBy(chunks) ==
    IF chunks = <<>> THEN <<>>
    ELSE Head(chunks).grounding \o CarriedBy(Tail(chunks))

\* C30 as stated: the grounding metadata list holds, in order, every
\* grounding chunk carried by the stream chunks consumed so far, those
\* carried by a stream chunk without text included.
C30_EveryGroundingChunkKept ==
    nativeStream.groundingMetadata = CarriedBy(nativeStream.chunks)

(***************************************************************************)
(* Claims about the session guard, checked under SpecGuard or SpecSession  *)
(***************************************************************************)

\* C1 as stated: at any time at most one request has passed the in-flight
\* check without its agent call having returned.
C1_SingleAdmitted == Cardinality({r \in Requests : Admitted(r)}) <= 1

\* C4 as stated: a handleSendMessage call made while some request's agent
\* call is running and nobody cancelled that request is answered empty at
\* once and leaves the displayed list, the cancellation token, the timeouts
\* and the persisted messages as they were.
C4_SendInFlightIsNoOp ==
    [][ ( /\ sendLog'.n = sendLog.n + 1
          /\ \E r \in Requests : AgentRunning(r) /\ ~requests[r].aborted )
        => ( /\ sendLog'.last \in {"rejected", "invalid"}
             /\ UNCHANGED <<messages, abortControllerRef, db, requests>> ) ]_vars

\* C32 as stated: while a request whose token is not aborted (neither by
\* stop nor by its timeout) is between its admission and its finally block,
\* isSendingRef.current is true; the finally block of an earlier, cancelled
\* request does not clear it. Checked under SpecGuard.
C32_FlagHeldWhileRunning ==
    \A r \in Requests :
        (requests[r].st \in {"save_user", "agent", "save_ai"} /\ ~requests[r].aborted)
            => isSendingRef

\* C33 as stated: whenever isSendingRef.current is false and every admitted
\* request has run its finally block, the isSending state the chat view
\* reads is false, also when another chat was selected while the generation
\* was running. Checked under SpecSession.
C33_IdleMeansNotSending ==
    (~isSendingRef /\ \A r \in Requests : requests[r].st \in {"none", "done"})
        => ~isSending

\* C34 as stated: the displayed list never holds two records with the same
\* id, however the realtime INSERT of a saved message, the history fetch's
\* merge and the final update of handleSendMessage are ordered. Checked
\* under SpecDisplay.
C34_NoDuplicateIds ==
    \A i, j \in DOMAIN messages : SameId(messages[i], messages[j]) => i = j

C36_NoDeltaAfterAbort ==
    [][ \A r \in Requests :
          (requests[r].aborted /\ AgentRunning(r))
          => ( /\ \A chunk \in {"txt", "think"} :
                     AgentChunk(r, chunk) => UNCHANGED <<messages, aiStatus, requests>>
               /\ requests'[r].st = "agent"
                    => requests'[r].currentText = requests[r].currentText
               /\ \A i \in DOMAIN messages :
                     (messages[i].id = "temp-ai" /\ messages[i].req = r)
                     => \E j \in DOMAIN messages' : messages'[j] = messages[i] ) ]_vars

\* C36 witness: a request was stopped after one delta and its agent call is
\* still running; its accumulated text and its provisional record hold that
\* one delta.
C36_Witness ==
    \E r \in Requests :
        /\ requests[r].aborted /\ AgentRunning(r)
        /\ requests[r].currentText = <<"think">>
        /\ activeChatIdRef = requests[r].chat
        /\ aiStatus = "idle"
        /\ \E i \in DOMAIN messages :
              /\ messages[i].id = "temp-ai" /\ messages[i].req = r
              /\ messages[i].text = <<"think">>

\* kw occurs in msg when the case of msg's letters is disregarded; every
\* keyword is written in lower case.
OccursIgnoringCase(msg, kw) ==
    \E o \in 0..(Len(msg) - Len(kw)) :
        \A i \in 1..Len(kw) :
            \/ msg[o + i] = kw[i]
            \/ \E k \in DOMAIN LowerCase : LowerCase[k] = kw[i] /\ UpperCase[k] = msg[o + i]

\* C37: for the request's message and every model capability,
\* shouldUseExternalSearch is true when hasSearchTag is true, false when the
\* model supports search and hasSearchTag is false, and otherwise true exactly
\* when the lower-cased message contains one of the listed keywords. Checked
\* under SpecSetup, whose requests carry every message of UserMessages.
C37_ShouldUseExternalSearch ==
    \A modelSupportsSearch \in BOOLEAN, hasSearchTag \in BOOLEAN :
        LET answer == ShouldUseExternalSearch(KeywordHit(setup.userMessage),
                                              modelSupportsSearch, hasSearchTag)
        IN  /\ hasSearchTag => answer
            /\ (modelSupportsSearch /\ ~hasSearchTag) => ~answer
            /\ (~modelSupportsSearch /\ ~hasSearchTag)
                 => (answer <=> \E kw \in Keywords : OccursIgnoringCase(setup.userMessage, kw))

\* C37 witness: the message holds a keyword only once it is lower-cased, the
\* model has no search of its own, and the pre-emptive search was started on
\* the function's answer.
C37_Witness ==
    /\ pc = "presearch"
    /\ ~ModelSupportsSearch(model)
    /\ setup.userMessage # ToLowerCase(setup.userMessage)
    /\ ~(\E kw \in Keywords : Includes(setup.userMessage, kw))
    /\ ShouldUseExternalSearch(KeywordHit(setup.userMessage), ModelSupportsSearch(model), FALSE)

\* C38: whatever errors the provider answers with, one invocation of
\* generateContentStreamWithRetry issues at most 4 provider calls, and once a
\* call was issued with the fallback model, params.model is the fallback
\* model and every later call is issued with it. Checked under SpecRetry.
C38_CallBudget ==
    /\ Len(calls) <= 4
    /\ Len(responses) <= Len(calls)
    /\ \A i \in DOMAIN calls :
          calls[i].model = FALLBACK_MODEL
          => ( /\ params_model = FALLBACK_MODEL
               /\ \A j \in DOMAIN calls : j > i => calls[j].model = FALLBACK_MODEL )

\* C38 witness: quota, model-not-found and other errors were all answered in
\* one invocation; it made its fourth call with the fallback model after
\* starting with another one, and threw.
C38_Witness ==
    /\ rpc = "thrown"
    /\ Len(calls) = 4
    /\ calls[1].model # FALLBACK_MODEL
    /\ calls[4].model = FALLBACK_MODEL
    /\ \E i, j, k \in DOMAIN responses :
          /\ IsQuotaError(responses[i])
          /\ IsNotFoundError(responses[j])
          /\ responses[k] # OkResponse
          /\ ~IsQuotaError(responses[k]) /\ ~IsNotFoundError(responses[k])

\* C39 as stated: in every reachable state of the agent loop, a non-empty
\* fallback search context implies a non-empty accumulated response text.
C39_ContextImpliesText ==
    fallbackSearchContext # "" => finalResponseText # <<>>

\* C39, amended: a non-empty fallback search context implies a non-empty
\* accumulated response text in every state but those that follow the canvas
\* handoff, which empties the text (line 603), sets the action to CANVAS and
\* returns the collaborator's result or fails with its exception;
\* the fallback text is never streamed and the return of line 622 never
\* carries it. Checked under SpecAgent.
C39_FallbackNeverReplaces ==
    /\ (fallbackSearchContext # "" /\ currentAction # "CANVAS")
            => finalResponseText # <<>>
    /\ \A i \in DOMAIN streamed : streamed[i] # FallbackContextChunk
    /\ result.line = 622
            => \A i \in DOMAIN result.text : result.text[i] # FallbackContextChunk

\* C39 witness: a reactive search has set the fallback search context and a
\* later iteration ended at the return of line 622.
C39_Witness ==
    /\ pc = "done"
    /\ result.line = 622
    /\ fallbackSearchContext # ""
    /\ loopCount >= 2

\* C40: in instant mode the free providers are tried in the order Puter,
\* Hugging Face, Legacy API, each only after the one before it failed, and
\* none after the first success; when all three failed the request returns
\* one AI message with the busy text and model 'Error', not an exception; and
\* an instant request makes no web search, no generation dispatch and no loop
\* iteration. Checked under SpecSetup.
C40_FreeProvidersInOrder ==
    LET order == <<"Puter", "Hugging Face", "Legacy API">>
        n == Len(free.tried)
        allFailed == n = 3 /\ \A i \in 1..n : ~free.tried[i].ok
    IN  /\ n <= 3
        /\ \A i \in 1..n : free.tried[i].provider = order[i]
        /\ \A i \in 1..(n - 1) : ~free.tried[i].ok
        /\ n > 0 => setup.thinkingMode = "instant"
        /\ (setup.thinkingMode = "instant" /\ pc = "done")
              => ( /\ n >= 1
                   /\ free.tried[n].ok \/ n = 3
                   /\ result.kind \in {"text", "busy"}
                   /\ allFailed <=> result = Returned("busy", <<BusyChunk>>, 216)
                   /\ allFailed <=> free.modelUsed = "Error" )
        /\ (n >= 1 /\ free.tried[n].ok) => pc = "done"
        /\ setup.thinkingMode = "instant"
              => ( /\ searchCalls = <<>> /\ calls = <<>>
                   /\ dispatches = 0 /\ loopCount = 0
                   /\ currentPrompt = UserPrompt /\ generatedThisLoop = <<>> )

\* C40 witness: Puter, Hugging Face and the Legacy API were tried and failed,
\* and the request returned the busy text with model 'Error'.
C40_Witness ==
    /\ pc = "done"
    /\ Len(free.tried) = 3
    /\ \A i \in 1..3 : ~free.tried[i].ok
    /\ result.kind = "busy"
    /\ streamed = <<BusyChunk>>
    /\ free.modelUsed = "Error"

\* C16 as stated: for each request, memory extraction is started before an
\* AI message is written. Checked under SpecSession.
C16_OriginalOrder ==
    \A r \in Requests : \A i \in DOMAIN storageLog[r] :
        storageLog[r][i] = "ai" => \E j \in 1..(i - 1) : storageLog[r][j] = "memory"

\* C16, amended: the user message is written before generation starts,
\* nothing else is stored while generation runs, and after it completes the
\* AI message is written first and memory extraction is started after it.
\* Checked under SpecSession.
C16_StorageOrder ==
    \A r \in Requests :
        /\ storageLog[r] \in {<<>>, <<"user">>, <<"user", "ai", "memory">>,
                              <<"user", "memory">>}
        /\ requests[r].st = "save_user" => storageLog[r] = <<>>
        /\ requests[r].st \in {"agent", "save_ai"} => storageLog[r] = <<"user">>

\* C16: a request has written its user message, then its AI message, and has
\* started memory extraction.
C16_Witness == \E r \in Requests : storageLog[r] = <<"user", "ai", "memory">>

\* C17 as stated needs, in a form a finite run refutes: while a request's
\* agent call is running and its token is not aborted, its safety timeout is
\* still pending, whether or not deltas were streamed; a provider that stalls
\* from a state without a pending timeout is never timed out. Checked under
\* SpecSession.
C17_TimeoutStaysArmed ==
    \A r \in Requests :
        (AgentRunning(r) /\ ~requests[r].aborted) => requests[r].timer

\* C19: a step that delivers a delta to a request that is not cancelled
\* appends one delta to the request's accumulated text, whichever chat is
\* active; when the active chat is not the request's, the step changes
\* neither the displayed list nor the AI status. Checked under SpecSession.
C19_DeltaFrame ==
    [][ \A r \in Requests :
            requests'[r].delivered = requests[r].delivered + 1
                => /\ IsPrefix(requests[r].currentText, requests'[r].currentText)
                   /\ Len(requests'[r].currentText) = Len(requests[r].currentText) + 1
                   /\ activeChatIdRef # requests[r].chat
                        => (messages' = messages /\ aiStatus' = aiStatus) ]_vars

\* C19: a running request has accumulated deltas that were delivered while
\* another chat was active, and its provisional record shows none of them.
C19_Witness ==
    \E r \in Requests :
        /\ AgentRunning(r)
        /\ ~requests[r].aborted
        /\ activeChatIdRef # requests[r].chat
        /\ Len(requests[r].currentText) = MaxGuardDeltas
        /\ \E i \in DOMAIN messages :
                messages[i].id = "temp-ai" /\ messages[i].req = r /\ messages[i].text = <<>>

\* The index of request r's provisional AI record in the list msgs, 0 when
\* it holds none
TempIndex(msgs, r) ==
    IF \E i \in DOMAIN msgs : msgs[i].id = "temp-ai" /\ msgs[i].req = r
    THEN CHOOSE i \in DOMAIN msgs : msgs[i].id = "temp-ai" /\ msgs[i].req = r
    ELSE 0

\* C20 as stated: the provisional AI record is in the displayed list when
\* the agent call starts; when the AI message's write settles while the
\* request's chat is the active one, a persisted record takes the provisional
\* record's position and the rest of the list stays, and if the write failed
\* the provisional record remains in the list. Checked under SpecSession.
C20_ProvisionalReconciled ==
    [][ \A r \in Requests :
          /\ (requests[r].st = "save_user" /\ requests'[r].st = "agent")
                => TempIndex(messages', r) # 0
          /\ ( /\ requests[r].st = "save_ai"
               /\ requests'[r].st = "done"
               /\ activeChatIdRef = requests[r].chat )
                => LET i == TempIndex(messages, r)
                   IN  /\ i # 0
                       /\ IF "ai" \in Range(storageLog'[r])
                          THEN /\ Len(messages') = Len(messages)
                               /\ messages'[i].id = "saved" /\ messages'[i].req = r
                               /\ \A j \in DOMAIN messages \ {i} : messages'[j] = messages[j]
                          ELSE TempIndex(messages', r) = i ]_vars

====
